---------------------------- MODULE Spec2Model ----------------------------
(***************************************************************************)
(* Episode-generation pipeline and story lineage of the storyteller        *)
(* backend: the relational store (stories, episodes, memory_states), the   *)
(* streaming generation flow of StoryService.generate_episode_stream, and  *)
(* the synchronous handlers that read and write the same rows              *)
(* (create/update/delete story, delete episode, fork, tree).               *)
(*                                                                         *)
(* Text is a sequence of one-character strings.  A NULL column is the      *)
(* one-element sequence None for text columns, the string "None" for the   *)
(* opaque title/summary/guidance columns, and 0 for integer columns.       *)
(***************************************************************************)
EXTENDS Integers, Sequences, FiniteSets, TLC

VARIABLES stories, episodes, memory_states, llm_providers, req, resp

vars == <<stories, episodes, memory_states, llm_providers, req, resp>>

---------------------------------------------------------------------------
(* Bounds of the model *)

\* Largest story id the store hands out.
MaxStoryId == 3

\* Largest episode id the store hands out.
MaxEpisodeId == 4

\* Largest memory_states id the store hands out.
MaxMemoryId == 3

\* Generation requests that can be in flight at once (request slots).
Reqs == {"r1", "r2"}

\* Story ids a request may name (one more than exist, for the 404 paths).
StoryIds == 1..(MaxStoryId + 1)

\* Largest episode number a delete or fork request names.
MaxNumber == 3

\* Episode numbers a request may name.
EpisodeNumbers == 1..MaxNumber

\* Guidance text of a generation request (None when omitted).
Guidances == {"None", "g"}

None == <<"None">>

\* Title texts.
Untitled == <<"U", "n", "t", "i", "t", "l", "e", "d">>

Dawn == <<"D", "a", "w", "n">>

Dusk == <<"D", "u", "s", "k">>

\* Replies of the generation backend for one request: the token stream of
\* the episode, the raw response of the title call to the primary
\* provider, the raw response a title call to the fallback provider would
\* get, the summary call's text.
EmptyReply ==
  [tokens |-> << >>, title |-> << >>, fallback_title |-> << >>, summary |-> ""]

FullReply ==
  [tokens |-> << <<"a", "b", ".">>, <<" ", "c">> >>, title |-> Dawn,
   fallback_title |-> Dusk, summary |-> "s"]

\* The primary title call yields nothing usable; a fallback call would.
RetitledReply == [FullReply EXCEPT !.title = << >>]

Replies == {EmptyReply, FullReply}

\* Character lists of a story creation request.
CharacterLists == {<< >>, <<"hero">>}

\* Largest llm_providers id the store hands out.
MaxProviderId == 2

\* Provider ids a request may name (one more than exist, for the 404 paths).
ProviderIds == 1..(MaxProviderId + 1)

\* The flags of a provider creation or update request.
ProviderFlags == [is_default : BOOLEAN, is_alternate : BOOLEAN, enabled : BOOLEAN]

\* target_words of a generation request: None (0) or a value the schema
\* admits (ge=100, le=5000), on both sides of the tier cut-offs.
TargetWords == {0, 100, 750, 751, 1250, 1251, 5000}

\* Bodies of a generation request.
Requests == [guidance : Guidances, target_words : TargetWords, use_alternate : BOOLEAN]

\* Settings a story update sets, all five at once; "None" and 0 are null.
SettingsUpdates ==
  [target_word_preset : {"short", "medium", "long", "epic", "None"},
   temperature : {0, 5, 10},
   writing_style : {"descriptive", "balanced", "None"},
   mood : {"dark", "moderate", "None"},
   pacing : {"fast", "moderate", "None"}]

---------------------------------------------------------------------------
(* Store helpers *)

Max(S) == CHOOSE x \in S : \A y \in S : y <= x

\* SQLite INTEGER PRIMARY KEY without AUTOINCREMENT: the next rowid is one
\* more than the largest rowid in the table.
NextId(rows) == IF rows = {} THEN 1 ELSE Max({x.id : x \in rows}) + 1

StoryRow(story_id) == {s \in stories : s.id = story_id}

StoryExists(story_id) == StoryRow(story_id) # {}

GetStory(story_id) == CHOOSE s \in stories : s.id = story_id

EpisodesOf(story_id) == {e \in episodes : e.story_id = story_id}

EpisodeRow(episode_id) == {e \in episodes : e.id = episode_id}

MemoryOfEpisode(episode_id) == {m \in memory_states : m.episode_id = episode_id}

MemoryOfStory(story_id) == {m \in memory_states : m.story_id = story_id}

---------------------------------------------------------------------------
(* Text functions *)

Terminators == {".", "!", "?"}

Closers == {"\"", "'", ")", "]"}

Quotes == {"\"", "'"}

Whitespace == {" ", "\n", "\t"}

RECURSIVE Flatten(_)
\* Concatenation of a sequence of tokens (full_content += token).
Flatten(toks) == IF toks = << >> THEN << >> ELSE Head(toks) \o Flatten(Tail(toks))

RECURSIVE LStrip(_)
LStrip(t) == IF t # << >> /\ Head(t) \in Whitespace THEN LStrip(Tail(t)) ELSE t

RECURSIVE RStrip(_)
RStrip(t) ==
  IF t # << >> /\ t[Len(t)] \in Whitespace THEN RStrip(SubSeq(t, 1, Len(t) - 1)) ELSE t

\* str.strip()
Strip(t) == LStrip(RStrip(t))

RECURSIVE SkipWhile(_, _, _)
\* First index >= i of t whose character is not in S (Len(t) + 1 when none).
SkipWhile(t, i, S) == IF i <= Len(t) /\ t[i] \in S THEN SkipWhile(t, i + 1, S) ELSE i

RECURSIVE SplitFrom(_, _, _)
\* re.split on [.!?]["')\]]*\s* from index i, cur being the piece under way.
SplitFrom(t, i, cur) ==
  IF i > Len(t) THEN <<cur>>
  ELSE IF t[i] \in Terminators
       THEN <<cur>> \o SplitFrom(t, SkipWhile(t, SkipWhile(t, i + 1, Closers), Whitespace), << >>)
       ELSE SplitFrom(t, i + 1, Append(cur, t[i]))

\* sentence_endings.split(current_sentence)
SentenceSplit(t) == SplitFrom(t, 1, << >>)

\* sentence_endings.search(current_sentence)
SentenceSearch(t) == \E i \in 1..Len(t) : t[i] \in Terminators

RECURSIVE StrippedNonEmpty(_)
\* The trimmed, non-empty pieces of a list of pieces, in order.
StrippedNonEmpty(pieces) ==
  IF pieces = << >> THEN << >>
  ELSE (IF Strip(Head(pieces)) # << >> THEN <<Strip(Head(pieces))>> ELSE << >>)
       \o StrippedNonEmpty(Tail(pieces))

\* The sentence events one token triggers, given the buffer after appending it.
CompletedSentences(buf) ==
  IF SentenceSearch(buf)
  THEN LET pieces == SentenceSplit(buf)
       IN StrippedNonEmpty(SubSeq(pieces, 1, Len(pieces) - 1))
  ELSE << >>

\* A buffer that is never cut.
RemainingSentence_Whole(buf) == buf

\* The per-sentence buffer kept after a token has been handled.
RemainingSentence(buf) ==
  IF SentenceSearch(buf)
  THEN LET pieces == SentenceSplit(buf) IN pieces[Len(pieces)]
  ELSE buf

RECURSIVE CountWords(_, _)
\* len(text.split()): the maximal runs of non-whitespace characters.
CountWords(t, inWord) ==
  IF t = << >> THEN 0
  ELSE IF Head(t) \in Whitespace THEN CountWords(Tail(t), FALSE)
       ELSE (IF inWord THEN 0 ELSE 1) + CountWords(Tail(t), TRUE)

WordCount(t) == CountWords(t, FALSE)

RECURSIVE SplitParagraphs(_, _)
\* content.split('\n\n'), cur being the piece under way.
SplitParagraphs(t, cur) ==
  IF t = << >> THEN <<cur>>
  ELSE IF Len(t) >= 2 /\ t[1] = "\n" /\ t[2] = "\n"
       THEN <<cur>> \o SplitParagraphs(SubSeq(t, 3, Len(t)), << >>)
       ELSE SplitParagraphs(Tail(t), Append(cur, Head(t)))

RECURSIVE JoinParagraphs(_)
\* '\n\n'.join(paragraphs)
JoinParagraphs(ps) ==
  IF ps = << >> THEN << >>
  ELSE IF Len(ps) = 1 THEN ps[1]
       ELSE ps[1] \o <<"\n", "\n">> \o JoinParagraphs(Tail(ps))

RECURSIVE SumLen(_)
SumLen(ps) == IF ps = << >> THEN 0 ELSE Len(Head(ps)) + SumLen(Tail(ps))

\* A test that also drops a last paragraph of exactly 30% of the mean.
LastParagraphShort_Inclusive(last, total, count) == 10 * last * count <= 3 * total

\* last_para_length < avg_length * 0.3, with avg_length = total / count:
\* over the integers, 10 * last * count < 3 * total.
LastParagraphShort(last, total, count) == 10 * last * count < 3 * total

_check_paragraph_completeness(content) ==
  LET paragraphs == StrippedNonEmpty(SplitParagraphs(content, << >>))
      n == Len(paragraphs)
  IN IF n < 2 THEN content
     ELSE IF LastParagraphShort(Len(paragraphs[n]), SumLen(SubSeq(paragraphs, 1, n - 1)), n - 1)
          THEN RStrip(JoinParagraphs(SubSeq(paragraphs, 1, n - 1)))
          ELSE content

\* re.search(r'[.!?]["\']?$', content)
EndsWithPunctuation(t) ==
  /\ t # << >>
  /\ \/ t[Len(t)] \in Terminators
     \/ Len(t) >= 2 /\ t[Len(t)] \in Quotes /\ t[Len(t) - 1] \in Terminators

\* The end offsets of the matches of [.!?]["\']?(?=\s|$) in t.
SentenceEnds(t) ==
  LET AtBoundary(j) == j > Len(t) \/ t[j] \in Whitespace
  IN { e \in 1..Len(t) :
         \/ t[e] \in Terminators /\ AtBoundary(e + 1)
         \/ e >= 2 /\ t[e] \in Quotes /\ t[e - 1] \in Terminators /\ AtBoundary(e + 1) }

\* A threshold that refuses a cut keeping exactly 80%.
KeepsEnough_Strict(truncatedLen, contentLen) == 10 * truncatedLen > 8 * contentLen

\* len(truncated) >= len(content) * 0.8
KeepsEnough(truncatedLen, contentLen) == 10 * truncatedLen >= 8 * contentLen

_ensure_complete_ending(content0) ==
  IF content0 = << >> THEN content0
  ELSE LET content == RStrip(content0)
       IN IF EndsWithPunctuation(content) THEN _check_paragraph_completeness(content)
          ELSE IF SentenceEnds(content) # {}
                  /\ KeepsEnough(Len(RStrip(SubSeq(content, 1, Max(SentenceEnds(content))))),
                                 Len(content))
               THEN _check_paragraph_completeness(
                      RStrip(SubSeq(content, 1, Max(SentenceEnds(content)))))
               ELSE content

\* The characters of the texts handled here: letters of the story text,
\* the letters of the preamble word Sure, punctuation and whitespace.
Alphabet ==
  {"a", "b", "c", "S", "u", "r", "e", ".", "!", "?", ",", " ", "\n", "\""}

Sure == <<"S", "u", "r", "e">>

\* First index >= i of t that holds a newline (Len(t) + 1 when none).
LineEnd(t, i) == SkipWhile(t, i, Alphabet \ {"\n"})

\* re.sub(r'^(?:Certainly|Sure|Of course|Absolutely)[!,.].*?\n+', '', content):
\* without MULTILINE the pattern matches at the start of the text only, so at
\* most once; '.' never crosses a newline, so the lazy .*? runs to the end
\* of the first line and \n+ takes every newline that follows it.
PreamblePhrase(content) ==
  IF /\ Len(content) > Len(Sure)
     /\ SubSeq(content, 1, Len(Sure)) = Sure
     /\ content[Len(Sure) + 1] \in {"!", ",", "."}
     /\ LineEnd(content, Len(Sure) + 2) <= Len(content)
  THEN SubSeq(content,
              SkipWhile(content, LineEnd(content, Len(Sure) + 2), {"\n"}),
              Len(content))
  ELSE content

\* The CLEANUP_PATTERNS loop.  The other six patterns need a quoted title
\* followed by the word This, a digit, '*', '#', or one of the words Here
\* and Episode at the start of the text or of a line, and the other
\* preamble words need letters outside Alphabet: over Alphabet only the
\* Sure preamble can match.
StripPreambles(content) == PreamblePhrase(content)

_clean_content(content) == _ensure_complete_ending(Strip(StripPreambles(content)))

\* First index >= i of t whose character is in S (Len(t) + 1 when none).
SkipUntil(t, i, S) ==
  IF \E j \in i..Len(t) : t[j] \in S
  THEN CHOOSE j \in i..Len(t) : t[j] \in S /\ \A k \in i..(j - 1) : t[k] \notin S
  ELSE Len(t) + 1

Digits == {"0", "1", "2", "3", "4", "5", "6", "7", "8", "9"}

RECURSIVE StripSet(_, _)
\* str.strip(chars)
StripSet(t, S) ==
  IF t # << >> /\ Head(t) \in S THEN StripSet(Tail(t), S)
  ELSE IF t # << >> /\ t[Len(t)] \in S THEN StripSet(SubSeq(t, 1, Len(t) - 1), S)
  ELSE t

\* Episode.title is String(255); _clean_title cuts at 255 characters.
MaxTitleLength == 255

\* text[:n]
Cut(text, n) == IF Len(text) > n THEN SubSeq(text, 1, n) ELSE text

\* The starts of the matches of ["\']([^"\']+)["\']: a quote, at least one
\* character that is no quote, and a quote closing the run.
QuotedStarts(raw) ==
  { i \in 1..Len(raw) :
      /\ raw[i] \in Quotes
      /\ i + 1 <= Len(raw) /\ raw[i + 1] \notin Quotes
      /\ SkipUntil(raw, i + 1, Quotes) <= Len(raw) }

\* group(1) of the leftmost match.
FirstQuoted(raw) ==
  LET i == CHOOSE k \in QuotedStarts(raw) : \A o \in QuotedStarts(raw) : k <= o
  IN SubSeq(raw, i + 1, SkipUntil(raw, i + 1, Quotes) - 1)

HereIs == <<"H", "e", "r", "e", " ", "i", "s">>

HereAre == <<"H", "e", "r", "e", " ", "a", "r", "e">>

StartsWith(t, prefix) == Len(t) >= Len(prefix) /\ SubSeq(t, 1, Len(prefix)) = prefix

\* re.sub(r'^(?:Here (?:are|is)[^\n]*:?\s*)', '', raw): the first line and
\* the whitespace after it go when the response starts with Here is or
\* Here are.
DropHerePreamble(raw) ==
  IF StartsWith(raw, HereIs) \/ StartsWith(raw, HereAre)
  THEN SubSeq(raw, SkipWhile(raw, SkipUntil(raw, 1, {"\n"}), Whitespace), Len(raw))
  ELSE raw

\* re.sub(r'^\d+\.\s*', '', cleaned)
DropListNumber(cleaned) ==
  LET dot == SkipWhile(cleaned, 1, Digits)
  IN IF dot > 1 /\ dot <= Len(cleaned) /\ cleaned[dot] = "."
     THEN SubSeq(cleaned, SkipWhile(cleaned, dot + 1, Whitespace), Len(cleaned))
     ELSE cleaned

\* return quoted.group(1).strip()[:255]
QuotedTitle(raw) == Cut(Strip(FirstQuoted(raw)), MaxTitleLength)

_clean_title(raw) ==
  IF QuotedStarts(raw) # {} THEN QuotedTitle(raw)
  ELSE LET cleaned == StripSet(Strip(DropListNumber(DropHerePreamble(raw))), Quotes)
       IN IF cleaned # << >> THEN Cut(cleaned, MaxTitleLength) ELSE Untitled

---------------------------------------------------------------------------
(* Store state and generation requests *)

StoryStatus == {"draft", "in_progress", "completed", "abandoned"}

\* The values the Literal types of schemas/story.py allow; "None" is NULL.
TargetWordPreset == {"short", "medium", "long", "epic"}

WritingStyle == {"descriptive", "action", "dialogue", "balanced"}

MoodSetting == {"light", "moderate", "intense", "dark"}

PacingSetting == {"slow", "moderate", "fast"}

\* Temperatures are counted in tenths (7 is 0.7); 0 is NULL.
DefaultTemperature == 7

\* Story(title, scenario_id, status=DRAFT) as create_story builds it: the
\* generation settings of the request are not passed on, every settings
\* column takes its column default. characters stands for the
\* story_characters rows the handler inserts after the story.
NewStory(id, characters) ==
  [id |-> id, status |-> "draft", parent_story_id |-> 0, fork_from_episode |-> 0,
   target_word_preset |-> "medium", temperature |-> DefaultTemperature,
   writing_style |-> "balanced", mood |-> "moderate", pacing |-> "moderate",
   characters |-> characters]

\* The provider row init_default_providers inserts into an empty table.
DefaultProvider ==
  [id |-> 1, is_default |-> TRUE, is_alternate |-> FALSE, enabled |-> TRUE]

\* A placeholder that loses the request's guidance.
NewEpisode_NoGuidance(id, story_id, number, guidance) ==
  [id |-> id, story_id |-> story_id, number |-> number, title |-> None,
   content |-> None, summary |-> "None", guidance |-> "None", word_count |-> 0]

\* Episode(story_id, number, guidance): every other column at its default.
NewEpisode(id, story_id, number, guidance) ==
  [id |-> id, story_id |-> story_id, number |-> number, title |-> None,
   content |-> None, summary |-> "None", guidance |-> guidance, word_count |-> 0]

\* EpisodeGenerateRequest with its schema defaults.
NoRequest == [guidance |-> "None", target_words |-> 0, use_alternate |-> FALSE]

\* The locals of the try block before anything has been computed.
NoGeneration ==
  [story_settings |-> [target_word_preset |-> "None", temperature |-> 0,
                       writing_style |-> "None", mood |-> "None", pacing |-> "None"],
   effective_target_words |-> 0,
   slices |-> [active |-> << >>, background |-> << >>, faded |-> << >>],
   context |-> [characters |-> << >>, active_memory |-> << >>,
                background_memory |-> << >>, faded_memory |-> << >>,
                episode_count |-> 0, next_episode_number |-> 0],
   system_prompt |-> [characters |-> << >>, style_section |-> << >>],
   user_prompt |-> [is_first_episode |-> FALSE, memory_context |-> << >>,
                    episode_number |-> 0, target_words |-> 0, word_preset |-> "None",
                    structure |-> "None", max_words |-> 0, guidance |-> "None"],
   provider |-> 0, max_tokens |-> 0]

\* A request slot with no generation under way. request is the body the
\* router received; guidance, target_words and use_alternate are the
\* arguments of generate_episode_stream (use_alternate defaults to False);
\* gen holds the locals of the try block, title_queries the providers the
\* title calls went to, in order.
IdleRequest ==
  [pc |-> "idle", story_id |-> 0, episode_id |-> 0, request |-> NoRequest,
   guidance |-> "None", target_words |-> 0, use_alternate |-> FALSE,
   gen |-> NoGeneration,
   pending |-> << >>, full_content |-> << >>, current_sentence |-> << >>,
   content |-> None, word_count |-> 0, title |-> None, fallback_title |-> None,
   title_queries |-> << >>, summary |-> "None",
   events |-> << >>, rollback_pending |-> FALSE]

\* The positions of a generation that no longer tells a failed request
\* from a running one.
InFlight_WithFailed == {"started", "streaming", "title", "summary", "failed"}

\* The positions inside the try block of generate_episode_stream.
InFlight == {"started", "streaming", "title", "summary"}

Init ==
  /\ stories = {}
  /\ episodes = {}
  /\ memory_states = {}
  /\ llm_providers = {DefaultProvider}
  /\ req = [r \in Reqs |-> IdleRequest]
  /\ resp = [op |-> "init", code |-> 0]

---------------------------------------------------------------------------
(* Story handlers (routers/stories.py) *)

create_story(characters) ==
  /\ NextId(stories) <= MaxStoryId
  /\ stories' = stories \cup {NewStory(NextId(stories), characters)}
  /\ resp' = [op |-> "create_story", code |-> 201]
  /\ UNCHANGED <<episodes, memory_states, req, llm_providers>>

\* for field, value in update_data.items(): setattr(story, field, value)
\* update_data holds the fields the request sets (exclude_unset).
ApplyUpdate(story, update_data) ==
  LET Set(field, old) == IF field \in DOMAIN update_data THEN update_data[field] ELSE old
  IN [story EXCEPT !.status = Set("status", @),
                   !.target_word_preset = Set("target_word_preset", @),
                   !.temperature = Set("temperature", @),
                   !.writing_style = Set("writing_style", @),
                   !.mood = Set("mood", @),
                   !.pacing = Set("pacing", @)]

update_story(story_id, update_data) ==
  /\ IF StoryExists(story_id)
     THEN /\ stories' = (stories \ StoryRow(story_id))
                          \cup {ApplyUpdate(GetStory(story_id), update_data)}
          /\ resp' = [op |-> "update_story", code |-> 200]
     ELSE /\ stories' = stories
          /\ resp' = [op |-> "update_story", code |-> 404]
  /\ UNCHANGED <<episodes, memory_states, req, llm_providers>>

\* A delete that leaves the forks pointing at the deleted story.
NullifyForks_Kept(rows, story_id) == rows

\* Story.forks (backref of parent_story) has no delete cascade: deleting a
\* story makes the unit of work set parent_story_id of its forks to NULL.
NullifyForks(rows, story_id) ==
  { IF s.parent_story_id = story_id THEN [s EXCEPT !.parent_story_id = 0] ELSE s
    : s \in rows }

\* Story.memory_states has no delete cascade either, and
\* memory_states.story_id is NOT NULL: the flush of db.delete(story) fails
\* on the first snapshot of the story and the transaction is rolled back.
StoryDeleteBlocked(story_id) == MemoryOfStory(story_id) # {}

delete_story(story_id) ==
  /\ IF ~StoryExists(story_id)
     THEN /\ resp' = [op |-> "delete_story", code |-> 404]
          /\ UNCHANGED <<stories, episodes>>
     ELSE IF StoryDeleteBlocked(story_id)
     THEN /\ resp' = [op |-> "delete_story", code |-> 500]
          /\ UNCHANGED <<stories, episodes>>
     ELSE /\ episodes' = episodes \ EpisodesOf(story_id)
          /\ stories' = NullifyForks(stories \ StoryRow(story_id), story_id)
          /\ resp' = [op |-> "delete_story", code |-> 204]
  /\ UNCHANGED <<memory_states, req, llm_providers>>

---------------------------------------------------------------------------
(* Episode deletion (routers/episodes.py) *)

\* A check that lets any episode of the story through.
IsLastEpisode_Any(story_id, episode_number) == TRUE

\* max_episode.number == episode_number, max_episode being the episode of
\* the story with the highest number.
IsLastEpisode(story_id, episode_number) ==
  Max({e.number : e \in EpisodesOf(story_id)}) = episode_number

\* Episode.memory_state has no delete cascade and memory_states.episode_id
\* is NOT NULL: the flush of db.delete(episode) fails when a snapshot
\* references the episode.
EpisodeDeleteBlocked(episode_id) == MemoryOfEpisode(episode_id) # {}

delete_episode(story_id, episode_number) ==
  LET found == {e \in EpisodesOf(story_id) : e.number = episode_number}
      Reply(code) == [op |-> "delete_episode", code |-> code]
  IN /\ IF found = {}
        THEN resp' = Reply(404) /\ episodes' = episodes
        ELSE IF ~IsLastEpisode(story_id, episode_number)
        THEN resp' = Reply(400) /\ episodes' = episodes
        ELSE \E episode \in found :
               IF EpisodeDeleteBlocked(episode.id)
               THEN resp' = Reply(500) /\ episodes' = episodes
               ELSE resp' = Reply(204) /\ episodes' = episodes \ {episode}
     /\ UNCHANGED <<stories, memory_states, req, llm_providers>>

---------------------------------------------------------------------------
(* Lineage (StoryService.fork_story, get_story_tree) *)

\* A copy that stops one episode short of the fork point.
EpisodesToCopy_Below(story_id, from_episode) ==
  {e \in EpisodesOf(story_id) : e.number < from_episode}

\* Episode.number <= from_episode, for the episodes of the source story.
EpisodesToCopy(story_id, from_episode) ==
  {e \in EpisodesOf(story_id) : e.number <= from_episode}

RECURSIVE OrderByNumber(_)
\* order_by(Episode.number): rows of equal number in rowid order.
OrderByNumber(rows) ==
  IF rows = {} THEN << >>
  ELSE LET first == CHOOSE e \in rows :
                      \A o \in rows : e.number < o.number
                                       \/ (e.number = o.number /\ e.id <= o.id)
       IN <<first>> \o OrderByNumber(rows \ {first})

\* new_ep = Episode(story_id=forked_story.id, number=ep.number, ...)
CopyEpisode(ep, id, forked_id) ==
  [id |-> id, story_id |-> forked_id, number |-> ep.number, title |-> ep.title,
   content |-> ep.content, summary |-> ep.summary, guidance |-> ep.guidance,
   word_count |-> ep.word_count]

\* The rows db.add(new_ep) inserts, ids handed out in insertion order.
CopiedEpisodes(story_id, from_episode, forked_id) ==
  LET src == OrderByNumber(EpisodesToCopy(story_id, from_episode))
      base == NextId(episodes)
  IN { CopyEpisode(src[i], base + i - 1, forked_id) : i \in 1..Len(src) }

\* A lookup that takes any snapshot of the story.
ForkMemory_AnyEpisode(story_id, from_episode) == MemoryOfStory(story_id)

\* db.query(MemoryState).filter(story_id).join(Episode).filter(number == from_episode)
ForkMemory(story_id, from_episode) ==
  { m \in MemoryOfStory(story_id) :
      \E e \in episodes : e.id = m.episode_id /\ e.number = from_episode }

\* Story(..., status=IN_PROGRESS, parent_story_id=story_id, fork_from_episode=from_episode)
\* and the settings and the story_characters of the original.
ForkedStory(id, story_id, from_episode) ==
  [GetStory(story_id) EXCEPT !.id = id, !.status = "in_progress",
                             !.parent_story_id = story_id,
                             !.fork_from_episode = from_episode]

fork_story(story_id, from_episode) ==
  LET forked_id == NextId(stories)
      copies == CopiedEpisodes(story_id, from_episode, forked_id)
      \* order_by(Episode.number.desc()).first() over the forked story
      last_episode == CHOOSE e \in copies :
                        \A o \in copies : o.number < e.number
                                           \/ (o.number = e.number /\ o.id <= e.id)
      Reply(code, id) == [op |-> "fork_story", code |-> code, forked_id |-> id]
  IN IF ~StoryExists(story_id)
     THEN /\ resp' = Reply(400, 0)
          /\ UNCHANGED <<stories, episodes, memory_states, req, llm_providers>>
     ELSE /\ forked_id <= MaxStoryId
          /\ NextId(episodes) + Cardinality(copies) - 1 <= MaxEpisodeId
          /\ stories' = stories \cup {ForkedStory(forked_id, story_id, from_episode)}
          /\ episodes' = episodes \cup copies
          /\ IF ForkMemory(story_id, from_episode) # {} /\ copies # {}
             THEN /\ NextId(memory_states) <= MaxMemoryId
                  /\ \E fork_memory \in ForkMemory(story_id, from_episode) :
                       memory_states' = memory_states \cup
                         {[fork_memory EXCEPT !.id = NextId(memory_states),
                                              !.story_id = forked_id,
                                              !.episode_id = last_episode.id]}
             ELSE memory_states' = memory_states
          /\ resp' = Reply(200, forked_id)
          /\ UNCHANGED <<req, llm_providers>>

\* story.forks: the stories whose parent_story_id is this story.
Forks(story_id) == {s.id : s \in {t \in stories : t.parent_story_id = story_id}}

RECURSIVE FindRoot(_, _)
\* while root.parent_story_id: root = query(Story).get(root.parent_story_id)
\* -1: the parent row is missing (attribute access on None raises);
\* -2: the walk has taken more steps than there are stories (it never ends).
FindRoot(story_id, fuel) ==
  IF ~StoryExists(story_id) THEN -1
  ELSE IF GetStory(story_id).parent_story_id = 0 THEN story_id
  ELSE IF fuel = 0 THEN -2
  ELSE FindRoot(GetStory(story_id).parent_story_id, fuel - 1)

RECURSIVE _build_tree_node(_, _)
_build_tree_node(story_id, fuel) ==
  [id |-> story_id,
   episode_count |-> Cardinality(EpisodesOf(story_id)),
   fork_from_episode |-> GetStory(story_id).fork_from_episode,
   children |-> IF fuel = 0 THEN {}
                ELSE {_build_tree_node(c, fuel - 1) : c \in Forks(story_id)}]

get_story_tree(story_id) ==
  LET root == FindRoot(story_id, Cardinality(stories))
      Reply(code, tree) == [op |-> "get_story_tree", code |-> code, root |-> tree]
  IN /\ IF ~StoryExists(story_id) THEN resp' = Reply(404, [id |-> 0])
        ELSE IF root < 0 THEN resp' = Reply(500, [id |-> root])
        ELSE resp' = Reply(200, _build_tree_node(root, Cardinality(stories)))
     /\ UNCHANGED <<stories, episodes, memory_states, req, llm_providers>>

---------------------------------------------------------------------------
(* Context Builder (MemoryService) *)

\* A rendered tier is the sequence of the parts its text joins: blocks of
\* the active tier (joined by a blank line), lines of the background and of
\* the faded tier (joined by a newline). The empty text is << >>.

ACTIVE_MEMORY_EPISODES == 3

BACKGROUND_MEMORY_EPISODES == 7

RECURSIVE OrderByNumberDesc(_)
\* order_by(Episode.number.desc()): rows of equal number in rowid order.
OrderByNumberDesc(rows) ==
  IF rows = {} THEN << >>
  ELSE LET first == CHOOSE e \in rows :
                      \A o \in rows : e.number > o.number
                                       \/ (e.number = o.number /\ e.id <= o.id)
       IN <<first>> \o OrderByNumberDesc(rows \ {first})

\* list[lo:hi] of Python, lo and hi counted from 0 and clamped to the list.
Slice(list, lo, hi) ==
  LET last == IF hi < Len(list) THEN hi ELSE Len(list)
  IN IF lo >= last THEN << >> ELSE SubSeq(list, lo + 1, last)

RECURSIVE Reversed(_)
\* reversed(episodes)
Reversed(list) ==
  IF list = << >> THEN << >> ELSE Append(Reversed(Tail(list)), Head(list))

\* A tier whose cut-off takes the larger target for the smaller.
active_episodes_Swapped(target_words) ==
  IF target_words <= 750 THEN 2
  ELSE IF target_words <= 1250 THEN 1
  ELSE ACTIVE_MEMORY_EPISODES

\* Lines 35-43: the size of the active tier.
active_episodes(target_words) ==
  IF target_words <= 750 THEN 1
  ELSE IF target_words <= 1250 THEN 2
  ELSE ACTIVE_MEMORY_EPISODES

\* Lines 35-43: whether the active tier is condensed.
use_condensed(target_words) == target_words <= 750

\* The three slices of the newest-first list handed to the tier builders.
ActiveSlice(list, target_words) == Slice(list, 0, active_episodes(target_words))

BackgroundSlice(list, target_words) ==
  Slice(list, active_episodes(target_words),
        active_episodes(target_words) + BACKGROUND_MEMORY_EPISODES)

FadedSlice(list, target_words) ==
  Slice(list, active_episodes(target_words) + BACKGROUND_MEMORY_EPISODES, Len(list))

\* The truth value of an opaque string column: NULL and '' are falsy.
Truthy(s) == s \notin {"None", ""}

\* What an f-string prints for a text column: the word None for NULL.
Printed(text) == IF text = None THEN <<"N", "o", "n", "e">> ELSE text

_get_last_paragraphs(content, n) ==
  IF content = None \/ content = << >> THEN << >>
  ELSE LET paragraphs == StrippedNonEmpty(SplitParagraphs(content, << >>))
           k == Len(paragraphs)
       IN IF k = 0 THEN content
          ELSE JoinParagraphs(SubSeq(paragraphs, IF k > n THEN k - n + 1 ELSE 1, k))

\* One block of the active tier: the header line and the content under it.
ActiveBlock(ep, condensed) ==
  [number |-> ep.number,
   title |-> IF ep.title \notin {None, << >>} THEN ep.title ELSE Untitled,
   condensed |-> condensed,
   summary |-> IF condensed /\ Truthy(ep.summary) THEN ep.summary ELSE "",
   text |-> IF condensed THEN _get_last_paragraphs(ep.content, 2) ELSE Printed(ep.content)]

RECURSIVE ActiveBlocks(_, _)
ActiveBlocks(list, condensed) ==
  IF list = << >> THEN << >>
  ELSE <<ActiveBlock(Head(list), condensed)>> \o ActiveBlocks(Tail(list), condensed)

_build_active_memory(list, condensed) == ActiveBlocks(Reversed(list), condensed)

RECURSIVE SummaryLines(_, _)
\* The lines of the episodes of list that have a summary, in list order;
\* numbered lines carry the episode number, bullet lines (0) do not.
SummaryLines(list, numbered) ==
  IF list = << >> THEN << >>
  ELSE (IF Truthy(Head(list).summary)
        THEN <<[number |-> IF numbered THEN Head(list).number ELSE 0,
                summary |-> Head(list).summary]>>
        ELSE << >>)
       \o SummaryLines(Tail(list), numbered)

_build_background_memory(list) == SummaryLines(Reversed(list), TRUE)

\* order_by(MemoryState.episode_id.desc()).first() over the story's snapshots
LatestMemory(story_id) ==
  {m \in MemoryOfStory(story_id) :
     \A o \in MemoryOfStory(story_id) :
        o.episode_id < m.episode_id \/ (o.episode_id = m.episode_id /\ o.id >= m.id)}

_build_faded_memory(story_id, list) ==
  IF list = << >> THEN << >>
  ELSE IF \E m \in LatestMemory(story_id) : m.faded_memory # << >>
       THEN (CHOOSE m \in LatestMemory(story_id) : TRUE).faded_memory
       ELSE SummaryLines(Reversed(list), FALSE)

\* The context dict, without the scenario block (no handler of the model
\* changes a scenario). The story row is known to exist.
build_context(story_id, target_words) ==
  LET list == OrderByNumberDesc(EpisodesOf(story_id))
  IN [characters |-> GetStory(story_id).characters,
      active_memory |-> _build_active_memory(ActiveSlice(list, target_words),
                                             use_condensed(target_words)),
      background_memory |-> _build_background_memory(BackgroundSlice(list, target_words)),
      faded_memory |-> _build_faded_memory(story_id, FadedSlice(list, target_words)),
      episode_count |-> Len(list),
      next_episode_number |-> Len(list) + 1]

\* json.dumps(value): the serialised text of a value, never the value.
json_dumps(value) == <<"json", value>>

---------------------------------------------------------------------------
(* Generation settings and prompts (StoryService, PromptService) *)

\* x or y over the integers, None and 0 being falsy.
OrElse(x, y) == IF x # 0 THEN x ELSE y

\* x or y over the opaque strings, NULL and '' being falsy.
OrDefault(s, default) == IF Truthy(s) THEN s ELSE default

_get_story_settings(story) ==
  [target_word_preset |-> OrDefault(story.target_word_preset, "medium"),
   temperature |-> IF story.temperature # 0 THEN story.temperature ELSE DefaultTemperature,
   writing_style |-> OrDefault(story.writing_style, "balanced"),
   mood |-> OrDefault(story.mood, "moderate"),
   pacing |-> OrDefault(story.pacing, "moderate")]

WORD_PRESETS == [short |-> 750, medium |-> 1250, long |-> 2000, epic |-> 3000]

\* settings.episode_target_words
episode_target_words == 1250

\* A resolution that lets the story's preset win over the request.
EffectiveTargetWords_PresetFirst(target_words, word_preset) ==
  OrElse(IF word_preset \in DOMAIN WORD_PRESETS THEN WORD_PRESETS[word_preset] ELSE 1250,
         OrElse(target_words, episode_target_words))

\* target_words or WORD_PRESETS.get(word_preset, 1250) or settings.episode_target_words
EffectiveTargetWords(target_words, word_preset) ==
  OrElse(target_words,
         OrElse(IF word_preset \in DOMAIN WORD_PRESETS THEN WORD_PRESETS[word_preset] ELSE 1250,
                episode_target_words))

\* int(target_words * 1.3 * 1.5): for every target from 100 to 5000 the
\* double product truncates to the floor of target_words * 195 / 100.
_calculate_max_tokens(target_words) == (target_words * 195) \div 100

\* One line of the style section per axis whose value is set, is not the
\* default of the axis and has an instruction in the table of the axis.
StyleLine_WithDefault(axis, value, default, table) ==
  IF Truthy(value) /\ value \in table
  THEN <<[axis |-> axis, value |-> value]>> ELSE << >>

StyleLine(axis, value, default, table) ==
  IF Truthy(value) /\ value # default /\ value \in table
  THEN <<[axis |-> axis, value |-> value]>> ELSE << >>

_build_style_section(writing_style, mood, pacing) ==
  StyleLine("Writing Style", writing_style, "balanced", WritingStyle)
  \o StyleLine("Mood", mood, "moderate", MoodSetting)
  \o StyleLine("Pacing", pacing, "moderate", PacingSetting)

build_system_prompt(context, writing_style, mood, pacing) ==
  [characters |-> context.characters,
   style_section |-> _build_style_section(writing_style, mood, pacing)]

\* The memory sections of the user prompt: the non-empty tiers, in the
\* order faded, background, active.
MemoryContext(context) ==
  (IF context.faded_memory # << >>
   THEN <<[heading |-> "Story Background (Key Facts)", tier |-> context.faded_memory]>>
   ELSE << >>)
  \o (IF context.background_memory # << >>
      THEN <<[heading |-> "Previous Episodes (Summaries)", tier |-> context.background_memory]>>
      ELSE << >>)
  \o (IF context.active_memory # << >>
      THEN <<[heading |-> "Recent Episodes (Full Text)", tier |-> context.active_memory]>>
      ELSE << >>)

\* The user prompt by its variable parts: which of the two forms it takes,
\* the memory sections (the first-episode form has none), the episode
\* number it names, the length block and the guidance block.
build_generation_prompt(context, guidance, target_words, word_preset) ==
  LET episode_number == context.next_episode_number
      is_first_episode == episode_number = 1
  IN [is_first_episode |-> is_first_episode,
      memory_context |-> IF is_first_episode THEN << >> ELSE MemoryContext(context),
      episode_number |-> IF is_first_episode THEN 0 ELSE episode_number,
      target_words |-> target_words,
      word_preset |-> word_preset,
      structure |-> IF word_preset \in DOMAIN WORD_PRESETS THEN word_preset ELSE "medium",
      max_words |-> (target_words * 12) \div 10,
      guidance |-> IF Truthy(guidance) THEN guidance ELSE "None"]

---------------------------------------------------------------------------
(* LLM providers (routers/settings.py, ProviderManager) *)

\* .first() of a query with no ORDER BY: the row of lowest rowid; 0 is None.
First(rows) == IF rows = {} THEN 0 ELSE CHOOSE i \in {p.id : p \in rows} :
                                          \A p \in rows : i <= p.id

get_default_provider == First({p \in llm_providers : p.is_default /\ p.enabled})

get_alternate_provider == First({p \in llm_providers : p.is_alternate /\ p.enabled})

get_provider_for_generation(use_alternate) ==
  IF use_alternate /\ get_alternate_provider # 0 THEN get_alternate_provider
  ELSE get_default_provider

\* A handler that leaves the flags of the other rows alone.
ClearFlags_Never(rows, clear_default, clear_alternate, except_id) == rows

\* UPDATE ... SET flag = False on the rows the filter selects.
ClearFlags(rows, clear_default, clear_alternate, except_id) ==
  { IF p.id = except_id THEN p
    ELSE [p EXCEPT !.is_default = IF clear_default THEN FALSE ELSE @,
                   !.is_alternate = IF clear_alternate THEN FALSE ELSE @]
    : p \in rows }

create_provider(provider) ==
  /\ llm_providers' =
       ClearFlags(llm_providers, provider.is_default, provider.is_alternate, 0)
       \cup {[id |-> NextId(llm_providers), is_default |-> provider.is_default,
              is_alternate |-> provider.is_alternate, enabled |-> provider.enabled]}
  /\ resp' = [op |-> "create_provider", code |-> 201]
  /\ UNCHANGED <<stories, episodes, memory_states, req>>

\* update_data sets the three flags of the provider.
update_provider(provider_id, update_data) ==
  /\ IF \E p \in llm_providers : p.id = provider_id
     THEN /\ llm_providers' =
               { IF p.id = provider_id
                 THEN [p EXCEPT !.is_default = update_data.is_default,
                                !.is_alternate = update_data.is_alternate,
                                !.enabled = update_data.enabled]
                 ELSE p
                 : p \in ClearFlags(llm_providers, update_data.is_default,
                                    update_data.is_alternate, provider_id) }
          /\ resp' = [op |-> "update_provider", code |-> 200]
     ELSE /\ llm_providers' = llm_providers
          /\ resp' = [op |-> "update_provider", code |-> 404]
  /\ UNCHANGED <<stories, episodes, memory_states, req>>

delete_provider(provider_id) ==
  /\ IF \E p \in llm_providers : p.id = provider_id
     THEN /\ llm_providers' = {p \in llm_providers : p.id # provider_id}
          /\ resp' = [op |-> "delete_provider", code |-> 204]
     ELSE /\ llm_providers' = llm_providers
          /\ resp' = [op |-> "delete_provider", code |-> 404]
  /\ UNCHANGED <<stories, episodes, memory_states, req>>

---------------------------------------------------------------------------
(* Episode generation (routers/episodes.py, StoryService.generate_episode_stream) *)

Event(kind, data, episode_id) == [event |-> kind, data |-> data, episode_id |-> episode_id]

RECURSIVE SentenceEvents(_, _)
SentenceEvents(sentences, episode_id) ==
  IF sentences = << >> THEN << >>
  ELSE <<Event("sentence", Head(sentences), episode_id)>>
       \o SentenceEvents(Tail(sentences), episode_id)

\* What the last step of a generation shows: the step, and the events the
\* stream has carried so far.
GenReply(r, step, events) ==
  [op |-> "generate", code |-> 200, r |-> r, step |-> step, events |-> events]

\* A flip that does not look at the status it replaces.
StatusAfterStart_Always(status) == "in_progress"

\* story.status after "if story.status == DRAFT: story.status = IN_PROGRESS"
StatusAfterStart(status) == IF status = "draft" THEN "in_progress" ELSE status

\* A numbering that starts at the count itself.
NextEpisodeNumber_FromCount(story_id) == Cardinality(EpisodesOf(story_id))

\* episode_number = episode_count + 1
NextEpisodeNumber(story_id) == Cardinality(EpisodesOf(story_id)) + 1

\* A request that gives the guidance and leaves the rest at its defaults.
GuidanceOnly(guidance) == [NoRequest EXCEPT !.guidance = guidance]

\* The router: 404 when the story is missing, else the event stream is
\* handed to the response and the generator runs once it is iterated.
\* generate_episode_stream is called with db, story_id, guidance and
\* target_words: request.use_alternate is not passed on.
generate_episode(r, story_id, request) ==
  /\ req[r].pc = "idle"
  /\ IF StoryExists(story_id)
     THEN /\ req' = [req EXCEPT ![r] = [IdleRequest EXCEPT !.pc = "created",
                                                          !.story_id = story_id,
                                                          !.request = request,
                                                          !.guidance = request.guidance,
                                                          !.target_words = request.target_words]]
          /\ resp' = GenReply(r, "accepted", << >>)
     ELSE /\ req' = req
          /\ resp' = [GenReply(r, "rejected", << >>) EXCEPT !.code = 404]
  /\ UNCHANGED <<stories, episodes, memory_states, llm_providers>>

\* Lines 27-50: story lookup, status flip, placeholder insert, start event.
StartGeneration(r) ==
  LET story_id == req[r].story_id
      new_id == NextId(episodes)
  IN /\ req[r].pc = "created"
     /\ IF ~StoryExists(story_id)
        THEN /\ req' = [req EXCEPT ![r] = IdleRequest]
             /\ resp' = GenReply(r, "not_found", <<Event("error", "Story not found", 0)>>)
             /\ UNCHANGED <<stories, episodes>>
        ELSE /\ stories' = (stories \ StoryRow(story_id)) \cup
                  {[GetStory(story_id) EXCEPT
                      !.status = StatusAfterStart(GetStory(story_id).status)]}
             /\ episodes' = episodes \cup
                  {NewEpisode(new_id, story_id, NextEpisodeNumber(story_id), req[r].guidance)}
             /\ req' = [req EXCEPT ![r].pc = "started",
                                   ![r].episode_id = new_id,
                                   ![r].events = <<Event("start", new_id, new_id)>>]
             /\ resp' = GenReply(r, "start", <<Event("start", new_id, new_id)>>)
     /\ UNCHANGED <<memory_states, llm_providers>>

\* Lines 52-100: settings, context, prompts, provider; the token stream opens.
\* _get_story_settings and build_context raise when the story row is gone.
RECURSIVE NumbersOf(_)
\* The episode numbers of a list of episodes, in list order.
NumbersOf(list) ==
  IF list = << >> THEN << >> ELSE <<Head(list).number>> \o NumbersOf(Tail(list))

\* Lines 54-87: settings, effective target, context (with the slices of
\* the episode list the three tier builders are handed), prompts,
\* provider and token budget.
TryBlockLocals(r) ==
  LET story_settings == _get_story_settings(GetStory(req[r].story_id))
      word_preset == story_settings.target_word_preset
      effective_target_words == EffectiveTargetWords(req[r].target_words, word_preset)
      list == OrderByNumberDesc(EpisodesOf(req[r].story_id))
      context == build_context(req[r].story_id, effective_target_words)
  IN [story_settings |-> story_settings,
      effective_target_words |-> effective_target_words,
      slices |-> [active |-> NumbersOf(ActiveSlice(list, effective_target_words)),
                  background |-> NumbersOf(BackgroundSlice(list, effective_target_words)),
                  faded |-> NumbersOf(FadedSlice(list, effective_target_words))],
      context |-> context,
      system_prompt |-> build_system_prompt(context, story_settings.writing_style,
                                            story_settings.mood, story_settings.pacing),
      user_prompt |-> build_generation_prompt(context, req[r].guidance,
                                              effective_target_words, word_preset),
      provider |-> get_provider_for_generation(req[r].use_alternate),
      max_tokens |-> _calculate_max_tokens(effective_target_words)]

OpenStream(r, reply) ==
  /\ req[r].pc = "started"
  /\ StoryExists(req[r].story_id)
  /\ req' = [req EXCEPT ![r].pc = "streaming",
                        ![r].gen = TryBlockLocals(r),
                        ![r].pending = reply.tokens,
                        ![r].title = reply.title,
                        ![r].fallback_title = reply.fallback_title,
                        ![r].summary = reply.summary]
  /\ resp' = GenReply(r, "open", req[r].events)
  /\ UNCHANGED <<stories, episodes, memory_states, llm_providers>>

\* Lines 101-117: one token of the stream, its token event and the sentence
\* events it completes.
OnToken(r) ==
  LET token == Head(req[r].pending)
      buffer == req[r].current_sentence \o token
      id == req[r].episode_id
  IN /\ req[r].pc = "streaming"
     /\ req[r].pending # << >>
     /\ req' = [req EXCEPT
          ![r].pending = Tail(req[r].pending),
          ![r].full_content = req[r].full_content \o token,
          ![r].current_sentence = RemainingSentence(buffer),
          ![r].events = req[r].events \o <<Event("token", token, id)>>
                          \o SentenceEvents(CompletedSentences(buffer), id)]
     /\ resp' = GenReply(r, "token", req'[r].events)
     /\ UNCHANGED <<stories, episodes, memory_states, llm_providers>>

\* Lines 119-132: the stream has ended; the trailing fragment is flushed,
\* the content repaired and counted, and the title call is awaited.
EndStream(r) ==
  LET id == req[r].episode_id
      rest == Strip(req[r].current_sentence)
      content == _clean_content(req[r].full_content)
  IN /\ req[r].pc = "streaming"
     /\ req[r].pending = << >>
     /\ req' = [req EXCEPT
          ![r].pc = "title",
          ![r].content = content,
          ![r].word_count = WordCount(content),
          ![r].events = req[r].events
                          \o (IF rest # << >> THEN <<Event("sentence", rest, id)>> ELSE << >>)]
     /\ resp' = GenReply(r, "end", req'[r].events)
     /\ UNCHANGED <<stories, episodes, memory_states, llm_providers>>

\* A retry that goes out whatever the primary call returned.
NeedsFallback_Always(title) == TRUE

\* if title == "Untitled"
NeedsFallback(title) == title = Untitled

\* _generate_title, given the raw responses of the two title calls: the
\* providers queried, in order, and the title kept.
\* The fallback call goes out only to a provider row other than the primary.
_generate_title(primary_raw, fallback_raw, use_alternate) ==
  LET provider == get_provider_for_generation(use_alternate)
      fallback_provider == get_provider_for_generation(~use_alternate)
      title == _clean_title(primary_raw)
  IN IF NeedsFallback(title) /\ fallback_provider # 0 /\ fallback_provider # provider
     THEN [queries |-> <<provider, fallback_provider>>, title |-> _clean_title(fallback_raw)]
     ELSE [queries |-> <<provider>>, title |-> title]

\* Lines 132-133: the title calls have returned; the summary call is awaited.
TitleReturns(r) ==
  /\ req[r].pc = "title"
  /\ req' = [req EXCEPT
       ![r].pc = "summary",
       ![r].title = _generate_title(req[r].title, req[r].fallback_title,
                                    req[r].use_alternate).title,
       ![r].title_queries = _generate_title(req[r].title, req[r].fallback_title,
                                            req[r].use_alternate).queries]
  /\ resp' = GenReply(r, "title", req[r].events)
  /\ UNCHANGED <<stories, episodes, memory_states, llm_providers>>

\* A commit that writes the content and its word count only.
CommitEpisode_ContentOnly(rows, r) ==
  { IF e.id = req[r].episode_id
    THEN [e EXCEPT !.content = req[r].content, !.word_count = req[r].word_count]
    ELSE e : e \in rows }

\* Lines 128-138: the UPDATE of the episode row, by primary key.
CommitEpisode(rows, r) ==
  { IF e.id = req[r].episode_id
    THEN [e EXCEPT !.content = req[r].content, !.word_count = req[r].word_count,
                   !.title = req[r].title, !.summary = req[r].summary]
    ELSE e : e \in rows }

\* A save that builds the context anew instead of taking the one it is handed.
SavedContext_Rebuilt(r) ==
  build_context(req[r].story_id, req[r].gen.effective_target_words)

\* The context argument of save_memory_state: the context local of the try block.
SavedContext(r) == req[r].gen.context

\* MemoryService.save_memory_state; the context holds no plot_threads key.
SavedMemoryState(r) ==
  [id |-> NextId(memory_states), story_id |-> req[r].story_id,
   episode_id |-> req[r].episode_id,
   active_memory |-> SavedContext(r).active_memory,
   background_memory |-> SavedContext(r).background_memory,
   faded_memory |-> SavedContext(r).faded_memory,
   character_states |-> json_dumps(SavedContext(r).characters),
   plot_threads |-> json_dumps(<< >>)]

\* Lines 133-151: the summary call has returned; episode commit, snapshot
\* save, complete event.
FinishGeneration(r) ==
  LET id == req[r].episode_id
  IN /\ req[r].pc = "summary"
     /\ EpisodeRow(id) # {}
     /\ episodes' = CommitEpisode(episodes, r)
     /\ memory_states' = memory_states \cup {SavedMemoryState(r)}
     /\ req' = [req EXCEPT ![r] = IdleRequest]
     /\ resp' = GenReply(r, "complete", req[r].events \o
                   <<Event("complete", [episode_id |-> id, title |-> req[r].title,
                                        word_count |-> req[r].word_count], 0)>>)
     /\ UNCHANGED <<stories, llm_providers>>

\* Lines 153-154: a step of the try block raised; the error event.
\* afterCommit: the episode commit went through and the snapshot save raised.
FailGeneration(r, afterCommit) ==
  LET id == req[r].episode_id
  IN /\ req[r].pc \in InFlight
     /\ afterCommit => req[r].pc = "summary" /\ EpisodeRow(id) # {}
     /\ episodes' = IF afterCommit THEN CommitEpisode(episodes, r) ELSE episodes
     /\ req' = [req EXCEPT ![r].pc = "failed",
                           ![r].events = req[r].events \o <<Event("error", "exception", id)>>]
     /\ resp' = GenReply(r, "error", req'[r].events)
     /\ UNCHANGED <<stories, memory_states, llm_providers>>

\* Lines 138-154 and MemoryService.save_memory_state: db.commit() raised
\* while flushing. The session has rolled its transaction back and refuses
\* further work until Session.rollback() is called, which the handler at
\* lines 153-157 never does.
\* afterCommit: the episode commit went through, the snapshot's commit raised.
FailCommit(r, afterCommit) ==
  LET id == req[r].episode_id
  IN /\ req[r].pc = "summary"
     /\ EpisodeRow(id) # {}
     /\ episodes' = IF afterCommit THEN CommitEpisode(episodes, r) ELSE episodes
     /\ req' = [req EXCEPT ![r].pc = "failed",
                           ![r].rollback_pending = TRUE,
                           ![r].events = req[r].events \o <<Event("error", "exception", id)>>]
     /\ resp' = GenReply(r, "error", req'[r].events)
     /\ UNCHANGED <<stories, memory_states, llm_providers>>

\* db.delete(new_episode); db.commit(): the DELETE is by primary key, and
\* the flush fails when a snapshot references the row.
DeleteFailedEpisode(rows, episode_id) ==
  IF EpisodeDeleteBlocked(episode_id) THEN rows
  ELSE {e \in rows : e.id # episode_id}

\* Lines 155-157: the generator is resumed after the error event. With a
\* rollback pending the session raises before any DELETE is sent.
CleanupFailedEpisode(r) ==
  /\ req[r].pc = "failed"
  /\ episodes' = IF req[r].rollback_pending THEN episodes
                 ELSE DeleteFailedEpisode(episodes, req[r].episode_id)
  /\ req' = [req EXCEPT ![r] = IdleRequest]
  /\ resp' = GenReply(r, "cleanup", req[r].events)
  /\ UNCHANGED <<stories, memory_states, llm_providers>>

---------------------------------------------------------------------------
(* Specifications *)

\* The store has an episode id left for the placeholder of request r.
EpisodeIdLeft(r) == StoryExists(req[r].story_id) => NextId(episodes) <= MaxEpisodeId

\* The steps of the generations under way, the backend answering from
\* replies, the store holding at most maxEpisodes episode rows.
GenerationSteps(replies, maxEpisodes) ==
  \/ \E r \in Reqs : /\ Cardinality(episodes) < maxEpisodes
                      /\ EpisodeIdLeft(r)
                      /\ StartGeneration(r)
  \/ \E r \in Reqs, reply \in replies : OpenStream(r, reply)
  \/ \E r \in Reqs : OnToken(r)
  \/ \E r \in Reqs : EndStream(r)
  \/ \E r \in Reqs : TitleReturns(r)
  \/ \E r \in Reqs : NextId(memory_states) <= MaxMemoryId /\ FinishGeneration(r)
  \/ \E r \in Reqs, afterCommit \in BOOLEAN : FailGeneration(r, afterCommit)
  \/ \E r \in Reqs, afterCommit \in BOOLEAN : FailCommit(r, afterCommit)
  \/ \E r \in Reqs : CleanupFailedEpisode(r)

Next ==
  \/ \E c \in CharacterLists : create_story(c)
  \/ \E s \in StoryIds, st \in StoryStatus : update_story(s, [status |-> st])
  \/ \E s \in StoryIds, u \in SettingsUpdates : update_story(s, u)
  \/ \E s \in StoryIds : delete_story(s)
  \/ \E s \in StoryIds, n \in EpisodeNumbers : delete_episode(s, n)
  \/ \E s \in StoryIds, k \in EpisodeNumbers : fork_story(s, k)
  \/ \E s \in StoryIds : get_story_tree(s)
  \/ \E r \in Reqs, s \in StoryIds, request \in Requests : generate_episode(r, s, request)
  \/ \E p \in ProviderFlags : NextId(llm_providers) <= MaxProviderId /\ create_provider(p)
  \/ \E i \in ProviderIds, p \in ProviderFlags : update_provider(i, p)
  \/ \E i \in ProviderIds : delete_provider(i)
  \/ GenerationSteps(Replies, MaxEpisodeId)

\* Every handler against every generation step, in any order.
Spec == Init /\ [][Next]_vars

\* No generation is under way.
Quiet == \A r \in Reqs : req[r].pc = "idle"

\* Stories of the sequential scenario.
MaxSeqStories == 2

SeqNext ==
  \/ Quiet /\ Cardinality(stories) < MaxSeqStories /\ create_story(<< >>)
  \/ \E s \in StoryIds, n \in EpisodeNumbers : Quiet /\ delete_episode(s, n)
  \/ \E s \in StoryIds, k \in EpisodeNumbers :
       Quiet /\ Cardinality(stories) < MaxSeqStories /\ fork_story(s, k)
  \/ \E s \in StoryIds : Quiet /\ generate_episode("r1", s, GuidanceOnly("g"))
  \/ GenerationSteps({FullReply}, MaxEpisodeId)

\* Non-overlapping operations: a handler runs only when no generation is
\* under way, so one generation at a time and nothing in between its steps.
SeqSpec == Init /\ [][SeqNext]_vars

\* Stories of the concurrent scenario.
MaxConcStories == 1

\* Episode rows of the concurrent scenario.
MaxConcEpisodes == 2

ConcNext ==
  \/ Cardinality(stories) < MaxConcStories /\ create_story(<< >>)
  \/ \E r \in Reqs, s \in StoryIds, g \in Guidances : generate_episode(r, s, GuidanceOnly(g))
  \/ GenerationSteps(Replies, MaxConcEpisodes)

\* Generations in flight at the same time, each suspended at its backend
\* calls.
ConcSpec == Init /\ [][ConcNext]_vars

\* Episode rows a generation of the lineage scenario may add to.
MaxTreeEpisodes == 2

TreeNext ==
  \/ Quiet /\ create_story(<< >>)
  \/ \E s \in StoryIds, k \in EpisodeNumbers : Quiet /\ fork_story(s, k)
  \/ \E s \in StoryIds : Quiet /\ delete_story(s)
  \/ \E s \in StoryIds : Quiet /\ get_story_tree(s)
  \/ \E s \in StoryIds : Quiet /\ generate_episode("r1", s, GuidanceOnly("g"))
  \/ GenerationSteps({FullReply}, MaxTreeEpisodes)

\* Story creations, forks, deletions and tree queries in any order, on
\* stories with and without episodes.
TreeSpec == Init /\ [][TreeNext]_vars

\* Stories of the status scenario.
MaxStatusStories == 1

\* Episode rows of the status scenario.
MaxStatusEpisodes == 2

StatusNext ==
  \/ Cardinality(stories) < MaxStatusStories /\ create_story(<< >>)
  \/ \E s \in StoryIds, st \in StoryStatus : update_story(s, [status |-> st])
  \/ \E s \in StoryIds : generate_episode("r1", s, GuidanceOnly("None"))
  \/ GenerationSteps({FullReply}, MaxStatusEpisodes)

\* One generation at a time on a story whose status is edited at any moment.
StatusSpec == Init /\ [][StatusNext]_vars

\* Episodes a story grows to in the long sequential runs.
MaxMemoryEpisodes == 11

\* The summary the backend returns for the episode of a given number.
EpisodeSummaries ==
  <<"s1", "s2", "s3", "s4", "s5", "s6", "s7", "s8", "s9", "s10", "s11", "s12", "s13">>

\* The reply of the backend in the long runs: the summary names the episode.
MemoryReply(number) ==
  [FullReply EXCEPT !.summary = IF number \in DOMAIN EpisodeSummaries
                                 THEN EpisodeSummaries[number] ELSE "s"]

\* One story whose preset is chosen before its first episode, and then one
\* successful generation after the other, each running to its end.
MemoryNext ==
  \/ stories = {} /\ create_story(<<"hero">>)
  \/ \E preset \in TargetWordPreset :
       Quiet /\ episodes = {} /\ update_story(1, [target_word_preset |-> preset])
  \/ Quiet /\ generate_episode("r1", 1, NoRequest)
  \/ Cardinality(episodes) < MaxMemoryEpisodes /\ StartGeneration("r1")
  \/ \E e \in EpisodeRow(req["r1"].episode_id) : OpenStream("r1", MemoryReply(e.number))
  \/ OnToken("r1")
  \/ EndStream("r1")
  \/ TitleReturns("r1")
  \/ FinishGeneration("r1")

MemorySpec == Init /\ [][MemoryNext]_vars

\* Episodes of the settings scenario.
MaxSettingsEpisodes == 1

\* One story whose settings are updated between generations, and
\* generation requests with and without a target word count.
SettingsNext ==
  \/ stories = {} /\ create_story(<< >>)
  \/ \E u \in SettingsUpdates : Quiet /\ update_story(1, u)
  \/ \E target_words \in TargetWords :
       Quiet /\ generate_episode("r1", 1, [NoRequest EXCEPT !.target_words = target_words])
  \/ GenerationSteps({FullReply}, MaxSettingsEpisodes)

SettingsSpec == Init /\ [][SettingsNext]_vars

\* Episodes of the provider scenario.
MaxProviderEpisodes == 1

\* Provider configuration changing at any time around the generations of
\* one story, asked with and without the alternate role.
ProviderNext ==
  \/ stories = {} /\ create_story(<< >>)
  \/ \E p \in ProviderFlags : NextId(llm_providers) <= MaxProviderId /\ create_provider(p)
  \/ \E i \in ProviderIds, u \in ProviderFlags : update_provider(i, u)
  \/ \E i \in ProviderIds : delete_provider(i)
  \/ \E use_alternate \in BOOLEAN :
       Quiet /\ generate_episode("r1", 1, [NoRequest EXCEPT !.use_alternate = use_alternate])
  \/ GenerationSteps(Replies \cup {RetitledReply}, MaxProviderEpisodes)

ProviderSpec == Init /\ [][ProviderNext]_vars

\* Generated texts of the content-repair scenario: up to MaxPreambles
\* preamble lines, up to MaxParagraphs paragraphs of the lengths below
\* separated by blank lines, and a tail the backend broke off in.
MaxPreambles == 2

MaxParagraphs == 3

MaxRepairEpisodes == 1

ParagraphLengths == {2, 3, 7, 8, 10, 11}

Preamble == Sure \o <<",", "\n">>

Tails == {<< >>, <<" ", "b">>, <<"\n", "\n", "b">>}

RECURSIVE Repeat(_, _)
Repeat(t, n) == IF n = 0 THEN << >> ELSE t \o Repeat(t, n - 1)

\* A paragraph of n characters: one sentence.
Paragraph(n) == Repeat(<<"a">>, n - 1) \o <<".">>

RECURSIVE Bodies(_)
\* The texts of at most n paragraphs.
Bodies(n) ==
  IF n = 0 THEN {<< >>}
  ELSE Bodies(n - 1) \cup
       { body \o (IF body = << >> THEN << >> ELSE <<"\n", "\n">>) \o Paragraph(l) :
           body \in Bodies(n - 1), l \in ParagraphLengths }

GeneratedTexts ==
  { Repeat(Preamble, k) \o body \o tail :
      k \in 0..MaxPreambles, body \in Bodies(MaxParagraphs), tail \in Tails }

\* The backend streams the text as one token.
RepairReplies ==
  { [FullReply EXCEPT !.tokens = IF text = << >> THEN << >> ELSE <<text>>] :
      text \in GeneratedTexts }

\* One generation whose token stream is any of the generated texts.
RepairNext ==
  \/ stories = {} /\ create_story(<< >>)
  \/ Quiet /\ generate_episode("r1", 1, NoRequest)
  \/ Cardinality(episodes) < MaxRepairEpisodes /\ StartGeneration("r1")
  \/ \E reply \in RepairReplies : OpenStream("r1", reply)
  \/ OnToken("r1")
  \/ EndStream("r1")
  \/ TitleReturns("r1")
  \/ FinishGeneration("r1")

RepairSpec == Init /\ [][RepairNext]_vars

\* Episodes of the style scenario.
MaxStyleEpisodes == 1

\* Style settings a story update sets, every allowed value and null.
StyleUpdates ==
  [writing_style : WritingStyle \cup {"None"},
   mood : MoodSetting \cup {"None"},
   pacing : PacingSetting \cup {"None"}]

\* One story whose style settings are updated between generations.
StyleNext ==
  \/ stories = {} /\ create_story(<< >>)
  \/ \E u \in StyleUpdates : Quiet /\ update_story(1, u)
  \/ Quiet /\ generate_episode("r1", 1, NoRequest)
  \/ GenerationSteps({FullReply}, MaxStyleEpisodes)

StyleSpec == Init /\ [][StyleNext]_vars

\* Episode rows at which the fork scenario starts no further generation.
MaxForkEpisodes == 3

\* Forks of one story at any point of its generations.
ForkNext ==
  \/ stories = {} /\ create_story(<< >>)
  \/ Quiet /\ generate_episode("r1", 1, NoRequest)
  \/ \E k \in EpisodeNumbers : fork_story(1, k)
  \/ GenerationSteps({FullReply}, MaxForkEpisodes)

ForkSpec == Init /\ [][ForkNext]_vars

\* Token streams of the sentence scenario: up to MaxSentenceTokens tokens
\* of up to MaxTokenLen characters, with a letter, a terminator, a closing
\* quote and a blank.
MaxSentenceTokens == 3

MaxTokenLen == 2

MaxSentenceEpisodes == 1

TokenCharacters == {"a", ".", "\"", " "}

RECURSIVE Strings(_)
\* The texts of 1..n token characters.
Strings(n) ==
  IF n = 0 THEN {}
  ELSE {<<c>> : c \in TokenCharacters}
       \cup {Append(s, c) : s \in Strings(n - 1), c \in TokenCharacters}

RECURSIVE TokenStreams(_)
\* The streams of 1..n tokens.
TokenStreams(n) ==
  IF n = 0 THEN {}
  ELSE {<<token>> : token \in Strings(MaxTokenLen)}
       \cup {Append(s, token) : s \in TokenStreams(n - 1), token \in Strings(MaxTokenLen)}

SentenceReplies ==
  {[FullReply EXCEPT !.tokens = tokens] : tokens \in TokenStreams(MaxSentenceTokens)}

\* One generation whose token stream is any of the streams above.
SentenceNext ==
  \/ stories = {} /\ create_story(<< >>)
  \/ Quiet /\ generate_episode("r1", 1, NoRequest)
  \/ Cardinality(episodes) < MaxSentenceEpisodes /\ StartGeneration("r1")
  \/ \E reply \in SentenceReplies : OpenStream("r1", reply)
  \/ OnToken("r1")
  \/ EndStream("r1")
  \/ TitleReturns("r1")
  \/ FinishGeneration("r1")

SentenceSpec == Init /\ [][SentenceNext]_vars

\* Raw responses of the title call: every text of up to MaxRawTitle title
\* characters, the same after a Here is line, and texts over the length cap.
MaxRawTitle == 3

MaxTitleEpisodes == 1

TitleCharacters == {"a", "\"", "'", " ", "1", "."}

RECURSIVE TextsOver(_, _)
\* The texts of 0..n characters of S.
TextsOver(S, n) ==
  IF n = 0 THEN {<< >>}
  ELSE TextsOver(S, n - 1) \cup {Append(s, c) : s \in TextsOver(S, n - 1), c \in S}

LongTitle == [i \in 1..(MaxTitleLength + 1) |-> "a"]

RawTitles ==
  TextsOver(TitleCharacters, MaxRawTitle)
  \cup {HereIs \o <<":", "\n">> \o s : s \in TextsOver(TitleCharacters, MaxRawTitle)}
  \cup {LongTitle, <<"\"">> \o LongTitle \o <<"\"">>}

TitleReplies == {[FullReply EXCEPT !.title = raw] : raw \in RawTitles}

\* One generation whose title call gets any of the raw responses.
TitleNext ==
  \/ stories = {} /\ create_story(<< >>)
  \/ Quiet /\ generate_episode("r1", 1, NoRequest)
  \/ Cardinality(episodes) < MaxTitleEpisodes /\ StartGeneration("r1")
  \/ \E reply \in TitleReplies : OpenStream("r1", reply)
  \/ OnToken("r1")
  \/ EndStream("r1")
  \/ TitleReturns("r1")
  \/ FinishGeneration("r1")

TitleSpec == Init /\ [][TitleNext]_vars

\* target_words: Optional[int] = Field(None, ge=100, le=5000)
MinTargetWords == 100

MaxTargetWords == 5000

MaxBudgetEpisodes == 1

\* One generation asked with any target word count the schema admits.
BudgetNext ==
  \/ stories = {} /\ create_story(<< >>)
  \/ \E target_words \in MinTargetWords..MaxTargetWords :
       Quiet /\ generate_episode("r1", 1, [NoRequest EXCEPT !.target_words = target_words])
  \/ Cardinality(episodes) < MaxBudgetEpisodes /\ StartGeneration("r1")
  \/ OpenStream("r1", FullReply)
  \/ OnToken("r1")
  \/ EndStream("r1")
  \/ TitleReturns("r1")
  \/ FinishGeneration("r1")

BudgetSpec == Init /\ [][BudgetNext]_vars

---------------------------------------------------------------------------
(* Event streams *)

\* The event streams in sight: those of the generations under way and the
\* one the last generation step has extended or closed.
Streams ==
  {req[r].events : r \in {q \in Reqs : req[q].pc \notin {"idle", "created"}}}
  \cup (IF resp.op = "generate" /\ resp.step \notin {"accepted", "rejected", "not_found"}
        THEN {resp.events} ELSE {})

Terminal == {"complete", "error"}

\* start first and only first; token and sentence events next; a terminal
\* event, if any, last.
WellFormedStream(log) ==
  /\ Len(log) >= 1
  /\ log[1].event = "start"
  /\ \A i \in 2..Len(log) : log[i].event \in {"token", "sentence"} \cup Terminal
  /\ \A i \in 1..Len(log) : log[i].event \in Terminal => i = Len(log)

\* C1: every event stream of a generation on an existing story starts with
\* its only start event, carries token and sentence events after it, and a
\* stream that has ended ends with one terminal event, complete or error,
\* after which nothing follows (a failed stream stays as it is until the
\* failed episode is cleaned up).
C1_StreamOrder ==
  /\ \A log \in Streams : WellFormedStream(log)
  /\ \A r \in Reqs :
       /\ req[r].pc \in {"started", "streaming", "title", "summary"} =>
            \A i \in 1..Len(req[r].events) : req[r].events[i].event \notin Terminal
       /\ req[r].pc = "failed" => req[r].events[Len(req[r].events)].event = "error"
  /\ resp.op = "generate" /\ resp.step = "complete" =>
       resp.events[Len(resp.events)].event = "complete"
  /\ resp.op = "generate" /\ resp.step = "cleanup" =>
       resp.events[Len(resp.events)].event = "error"

\* A stream has ended with complete after token and sentence events.
C1_Witness ==
  /\ resp.op = "generate" /\ resp.step = "complete"
  /\ \E i, j \in 1..Len(resp.events) :
       resp.events[i].event = "token" /\ resp.events[j].event = "sentence"

\* C2: when the flow of a failed generation has finished (the error event
\* has been sent and the generator has run to its end), the store holds no
\* episode row with the id of that request's placeholder.
C2_FailedLeavesNoEpisode ==
  resp.op = "generate" /\ resp.step = "cleanup" =>
    EpisodeRow(resp.events[1].data) = {}

---------------------------------------------------------------------------
(* Episode numbering *)

Numbers(story_id) == {e.number : e \in EpisodesOf(story_id)}

\* C3: while creations, deletions and forks on a story do not overlap, the
\* numbers of a story with E episodes are exactly 1..E, each once, and the
\* placeholder a generation has just inserted carries the highest of them,
\* one more than the count before it.
C3_DenseNumbers ==
  /\ \A s \in stories :
       /\ Numbers(s.id) = 1..Cardinality(EpisodesOf(s.id))
       /\ \A e1, e2 \in EpisodesOf(s.id) : e1.number = e2.number => e1 = e2
  /\ resp.op = "generate" /\ resp.step = "start" =>
       \E e \in episodes :
         /\ e.id = resp.events[1].data
         /\ e.number = Cardinality(EpisodesOf(e.story_id) \ {e}) + 1

\* The highest episode of a fork has been deleted while the story it was
\* forked from keeps its two episodes.
C3_Witness ==
  /\ resp.op = "delete_episode" /\ resp.code = 204
  /\ \E s, f \in stories :
       /\ f.parent_story_id = s.id
       /\ Cardinality(EpisodesOf(s.id)) = 2
       /\ Cardinality(EpisodesOf(f.id)) = 1

\* C4: two episodes of one story never carry the same number, whatever the
\* interleaving of the generations that create them.
C4_UniqueNumbers ==
  \A e1, e2 \in episodes :
    e1.story_id = e2.story_id /\ e1.number = e2.number => e1.id = e2.id

\* C5: the step that sends the start event has put the placeholder in the
\* store: its id is the one the start event carries, its story the request's,
\* its number the episode count before the request plus one, its content
\* empty and its guidance the request's.
C5_PlaceholderAtStart ==
  [][\A r \in Reqs :
       StartGeneration(r) /\ StoryExists(req[r].story_id) =>
         /\ resp'.step = "start"
         /\ resp'.events = <<Event("start", resp'.events[1].data, resp'.events[1].data)>>
         /\ \E e \in episodes' \ episodes :
              /\ episodes' = episodes \cup {e}
              /\ e.id = resp'.events[1].data
              /\ e.id \notin {x.id : x \in episodes}
              /\ e.story_id = req[r].story_id
              /\ e.number = Cardinality(EpisodesOf(req[r].story_id)) + 1
              /\ e.content = None
              /\ e.guidance = req[r].guidance]_vars

\* A start event has just been sent for a request with guidance on a story
\* that already had an episode.
C5_Witness ==
  /\ resp.op = "generate" /\ resp.step = "start"
  /\ \E e \in episodes :
       /\ e.id = resp.events[1].data
       /\ e.guidance = "g"
       /\ e.number = 2
       /\ e.content = None

---------------------------------------------------------------------------
(* Story status *)

\* C6: the step that starts a generation turns a draft story into an
\* in_progress one and leaves every other status, and every other story,
\* as it was; neither the failure of the generation nor its cleanup
\* touches the stories, so the flip outlives a failed generation.
C6_DraftFlip ==
  [][\A r \in Reqs :
       /\ StartGeneration(r) /\ StoryExists(req[r].story_id) =>
            \E t \in stories' :
              /\ t.id = req[r].story_id
              /\ t.status = IF GetStory(req[r].story_id).status = "draft"
                            THEN "in_progress"
                            ELSE GetStory(req[r].story_id).status
              /\ stories' \ {t} = stories \ StoryRow(req[r].story_id)
       /\ (\/ FailGeneration(r, TRUE) \/ FailGeneration(r, FALSE)
           \/ FailCommit(r, TRUE) \/ FailCommit(r, FALSE)
           \/ CleanupFailedEpisode(r)) =>
            stories' = stories]_vars

\* A generation has failed and left no episode, and its story is in_progress.
C6_Witness ==
  /\ resp.op = "generate" /\ resp.step = "cleanup"
  /\ episodes = {}
  /\ \E t \in stories : t.status = "in_progress"

---------------------------------------------------------------------------
(* Episode deletion *)

\* C7: delete_episode takes an episode away only when its number is the
\* highest of the story, and then only that episode; a lower number that
\* exists is refused with 400 and a number that does not exist with 404,
\* both leaving the store as it was.
C7_DeleteOnlyLast ==
  [][\A s \in StoryIds, n \in EpisodeNumbers :
       delete_episode(s, n) =>
         /\ n \notin Numbers(s) => resp'.code = 404 /\ episodes' = episodes
         /\ n \in Numbers(s) /\ (\E m \in Numbers(s) : m > n) =>
              resp'.code = 400 /\ episodes' = episodes
         /\ episodes' # episodes =>
              /\ resp'.code = 204
              /\ \A m \in Numbers(s) : m <= n
              /\ \E e \in EpisodesOf(s) : e.number = n /\ episodes' = episodes \ {e}
         /\ stories' = stories /\ memory_states' = memory_states]_vars

\* The highest of two episodes has just been deleted.
C7_Witness ==
  /\ resp.op = "delete_episode" /\ resp.code = 204
  /\ \E s \in stories : Numbers(s.id) = {1}

---------------------------------------------------------------------------
(* Lineage *)

\* C8: a fork at K of a story whose episodes, 1..E with K among them, are
\* numbered apart creates one story with parent the source and
\* fork_from_episode K, and exactly K episodes numbered 1..K under new ids,
\* each with the title, content, summary, guidance and word count of the
\* source's episode of that number; nothing else changes in the stories or
\* the episodes.
C8_ForkCopies ==
  [][\A s \in StoryIds, K \in EpisodeNumbers :
       fork_story(s, K) /\ StoryExists(s) /\ K \in Numbers(s) =>
         LET fid == resp'.forked_id
             copies == {e \in episodes' : e.story_id = fid}
         IN /\ resp'.code = 200
            /\ fid \notin {t.id : t \in stories}
            /\ \E t \in stories' :
                 /\ t.id = fid /\ t.parent_story_id = s /\ t.fork_from_episode = K
                 /\ stories' = stories \cup {t}
            /\ episodes' = episodes \cup copies
            /\ Cardinality(copies) = K
            /\ Cardinality({c.id : c \in copies}) = K
            /\ {c.number : c \in copies} = 1..K
            /\ \A c \in copies :
                 /\ c.id \notin {e.id : e \in episodes}
                 /\ \E e \in EpisodesOf(s) :
                      /\ e.number = c.number
                      /\ e.title = c.title /\ e.content = c.content
                      /\ e.summary = c.summary /\ e.guidance = c.guidance
                      /\ e.word_count = c.word_count]_vars

\* A story with two written episodes has just been forked at episode 1.
C8_Witness ==
  /\ resp.op = "fork_story" /\ resp.code = 200
  /\ \E f \in stories :
       /\ f.id = resp.forked_id /\ f.fork_from_episode = 1
       /\ Cardinality(EpisodesOf(f.id)) = 1
       /\ Cardinality(EpisodesOf(f.parent_story_id)) = 2
       /\ \A e \in EpisodesOf(f.id) : e.content # None

\* C9: a fork whose source story is missing, or whose from_episode is not
\* the number of an episode of the source, is refused with 400 and creates
\* no story, no episode and no snapshot.
C9_ForkRejected ==
  [][\A s \in StoryIds, K \in EpisodeNumbers :
       fork_story(s, K) /\ (~StoryExists(s) \/ K \notin Numbers(s)) =>
         /\ resp'.code = 400
         /\ stories' = stories
         /\ episodes' = episodes
         /\ memory_states' = memory_states]_vars

RECURSIVE Nodes(_)
\* The nodes of a tree.
Nodes(node) == {node} \cup UNION {Nodes(c) : c \in node.children}

\* C10: the parent links of the stories never form a cycle and always lead
\* to a story without parent; get_story_tree on an existing story answers
\* with a tree whose root has no parent, which holds the story asked for,
\* each story once, and in which the children of every node are exactly
\* the stories whose parent is that node.
C10_TreeWellFormed ==
  [][/\ \A t \in stories' :
          \E root \in stories' :
            /\ root.parent_story_id = 0
            /\ (FindRoot(t.id, Cardinality(stories)))' = root.id
     /\ \A s \in StoryIds :
          get_story_tree(s) /\ StoryExists(s) =>
            /\ resp'.code = 200
            /\ GetStory(resp'.root.id).parent_story_id = 0
            /\ s \in {n.id : n \in Nodes(resp'.root)}
            /\ Cardinality(Nodes(resp'.root)) = Cardinality({n.id : n \in Nodes(resp'.root)})
            /\ \A n \in Nodes(resp'.root) :
                 /\ {c.id : c \in n.children} =
                      {t.id : t \in {u \in stories : u.parent_story_id = n.id}}
                 /\ n.episode_count = Cardinality(EpisodesOf(n.id))]_vars

\* The tree of a fork whose parent story has been deleted has been asked
\* for: the fork is its root.
C10_Witness ==
  /\ resp.op = "get_story_tree" /\ resp.code = 200
  /\ \E t \in stories :
       /\ t.id = resp.root.id
       /\ t.fork_from_episode # 0
       /\ t.parent_story_id = 0
       /\ resp.root.children # {}

---------------------------------------------------------------------------
(* C11: tier sizing *)

\* The generations whose try block has built its context.
Built == {r \in Reqs : req[r].pc \in {"streaming", "title", "summary"}}

\* The size of the active tier the claim gives for a target word count.
ClaimedActive(target_words) ==
  IF target_words <= 750 THEN 1 ELSE IF target_words <= 1250 THEN 2 ELSE 3

\* list counts down from high, one by one, for count entries.
CountsDown(list, high, count) ==
  /\ Len(list) = (IF count > 0 THEN count ELSE 0)
  /\ \A i \in 1..Len(list) : list[i] = high + 1 - i

\* list is list2 read backwards.
Backwards(list, list2) ==
  /\ Len(list) = Len(list2)
  /\ \A i \in 1..Len(list) : list[i] = list2[Len(list2) + 1 - i]

RECURSIVE Having(_, _)
\* The numbers of list whose episode of the story has a summary, in order.
Having(list, story_id) ==
  IF list = << >> THEN << >>
  ELSE (IF \E e \in EpisodesOf(story_id) : e.number = Head(list) /\ Truthy(e.summary)
        THEN <<Head(list)>> ELSE << >>) \o Having(Tail(list), story_id)

RECURSIVE LineNumbers(_)
\* The episode numbers the parts of a rendered tier carry, in order.
LineNumbers(tier) ==
  IF tier = << >> THEN << >> ELSE <<Head(tier).number>> \o LineNumbers(Tail(tier))

Smaller(x, y) == IF x < y THEN x ELSE y

---------------------------------------------------------------------------
(* C12: the episode number the prompt is built for *)

\* C12: once a generation has built its context, the next_episode_number
\* of that context is the number of the placeholder episode of the request,
\* and for placeholder number 1 the user prompt has the first-episode form
\* and carries no memory context.
C12_PromptEpisodeNumber ==
  \A r \in Built : \A e \in EpisodeRow(req[r].episode_id) :
    /\ req[r].gen.context.next_episode_number = e.number
    /\ e.number = 1 => /\ req[r].gen.user_prompt.is_first_episode
                       /\ req[r].gen.user_prompt.memory_context = << >>

---------------------------------------------------------------------------
(* C13: growth of the faded memory *)

\* C13: when a generation of a story has completed, with n the episodes of
\* the story and a the size of the active tier for the story's preset,
\* every episode older than the background window (number at most
\* n - a - 7) that has a summary has its summary line in the faded memory
\* of the latest snapshot of the story.
C13_FadedRepresentsAll ==
  resp.op = "generate" /\ resp.step = "complete" =>
    \A s \in stories : \A m \in LatestMemory(s.id) :
      LET n == Cardinality(EpisodesOf(s.id))
          a == ClaimedActive(WORD_PRESETS[s.target_word_preset])
      IN \A e \in EpisodesOf(s.id) :
           e.number <= n - a - 7 /\ Truthy(e.summary) =>
             \E i \in DOMAIN m.faded_memory : m.faded_memory[i].summary = e.summary

---------------------------------------------------------------------------
(* C14: the snapshot holds the context of the prompts *)

\* The tier a section of the user prompt shows, by its heading.
PromptTier(user_prompt, heading) ==
  {user_prompt.memory_context[i].tier :
     i \in {j \in DOMAIN user_prompt.memory_context :
              user_prompt.memory_context[j].heading = heading}}

\* C14: the step that completes a generation adds one snapshot for the
\* episode of the request; its three tiers are the tiers of the context the
\* request built when it opened its stream, which are the tiers the memory
\* sections of its user prompt show, and its character states are the
\* serialised character list of that context, the list the system prompt
\* was built with.
C14_SnapshotIsPromptContext ==
  [][\A r \in Reqs :
       req[r].pc = "summary" /\ req'[r].pc = "idle" =>
         \E m \in memory_states' \ memory_states :
           LET gen == req[r].gen
           IN /\ memory_states' = memory_states \cup {m}
              /\ m.episode_id = req[r].episode_id
              /\ m.active_memory = gen.context.active_memory
              /\ m.background_memory = gen.context.background_memory
              /\ m.faded_memory = gen.context.faded_memory
              /\ m.character_states = json_dumps(gen.context.characters)
              /\ gen.system_prompt.characters = gen.context.characters
              /\ PromptTier(gen.user_prompt, "Recent Episodes (Full Text)")
                   \subseteq {m.active_memory}
              /\ PromptTier(gen.user_prompt, "Previous Episodes (Summaries)")
                   \subseteq {m.background_memory}
              /\ PromptTier(gen.user_prompt, "Story Background (Key Facts)")
                   \subseteq {m.faded_memory}
              /\ gen.user_prompt.memory_context # << >>]_vars

\* A snapshot that shows its episode as the empty placeholder the context
\* saw, while the episode row has its content by now.
C14_Witness ==
  /\ resp.op = "generate" /\ resp.step = "complete"
  /\ \E m \in memory_states : \E e \in EpisodeRow(m.episode_id) :
       /\ e.content # None
       /\ \E i \in DOMAIN m.active_memory :
            /\ m.active_memory[i].number = e.number
            /\ m.active_memory[i].text = Printed(None)

---------------------------------------------------------------------------
(* C15: one snapshot per completed episode *)

\* C15: whenever no generation is under way, every episode that has its
\* content has exactly one snapshot, and every snapshot references an
\* episode that exists and belongs to the snapshot's story.
C15_OneSnapshotPerEpisode ==
  Quiet =>
    /\ \A e \in episodes :
         e.content # None => Cardinality(MemoryOfEpisode(e.id)) = 1
    /\ \A m \in memory_states :
         \E e \in episodes : e.id = m.episode_id /\ e.story_id = m.story_id

---------------------------------------------------------------------------
(* C16: effective generation settings *)

\* The target word count the claim gives for a request value and a preset.
ClaimedTarget(target_words, preset) ==
  IF target_words # 0 THEN target_words
  ELSE IF preset = "short" THEN 750
  ELSE IF preset = "medium" THEN 1250
  ELSE IF preset = "long" THEN 2000
  ELSE IF preset = "epic" THEN 3000
  ELSE 1250

\* C16: once a generation has built its context, its effective target word
\* count is the request's target_words when given, else the table value of
\* the story's preset, else the system default 1250; temperature, writing
\* style, mood and pacing are the story's values, or 0.7, balanced,
\* moderate, moderate where the story has none; and the same target sizes
\* the active tier, stands in the length block of the user prompt and gives
\* the token budget.
C16_EffectiveSettings ==
  \A r \in Built : \A s \in StoryRow(req[r].story_id) :
    LET gen == req[r].gen
        target == ClaimedTarget(req[r].request.target_words, s.target_word_preset)
    IN /\ gen.effective_target_words = target
       /\ gen.story_settings.temperature = (IF s.temperature # 0 THEN s.temperature ELSE 7)
       /\ gen.story_settings.writing_style =
            (IF s.writing_style # "None" THEN s.writing_style ELSE "balanced")
       /\ gen.story_settings.mood = (IF s.mood # "None" THEN s.mood ELSE "moderate")
       /\ gen.story_settings.pacing = (IF s.pacing # "None" THEN s.pacing ELSE "moderate")
       /\ gen.story_settings.temperature \in 5..10
       /\ gen.story_settings.writing_style \in WritingStyle
       /\ gen.story_settings.mood \in MoodSetting
       /\ gen.story_settings.pacing \in PacingSetting
       /\ Len(gen.slices.active) =
            Smaller(ClaimedActive(target), Cardinality(EpisodesOf(s.id)))
       /\ \A i \in DOMAIN gen.context.active_memory :
            gen.context.active_memory[i].condensed = (target <= 750)
       /\ gen.user_prompt.target_words = target
       /\ gen.user_prompt.max_words = (target * 12) \div 10
       /\ gen.max_tokens = (target * 195) \div 100

\* A request without target on a story whose preset is epic and whose other
\* settings are all null.
C16_Witness ==
  \E r \in Built : \E s \in StoryRow(req[r].story_id) :
    /\ req[r].request.target_words = 0
    /\ s.target_word_preset = "epic"
    /\ s.temperature = 0 /\ s.writing_style = "None" /\ s.mood = "None" /\ s.pacing = "None"
    /\ req[r].gen.effective_target_words = 3000

---------------------------------------------------------------------------
(* C17: provider of the token stream *)

EnabledAlternates == {p.id : p \in {q \in llm_providers : q.is_alternate /\ q.enabled}}

EnabledDefaults == {p.id : p \in {q \in llm_providers : q.is_default /\ q.enabled}}

\* C17: when the token stream of a request opens, it opens against an
\* enabled alternate provider if the request asked for the alternate role
\* and one exists, else against an enabled default provider (None, 0, when
\* there is none); never against a disabled provider.
C17_StreamProvider ==
  [][\A r \in Reqs :
       req[r].pc = "started" /\ req'[r].pc = "streaming" =>
         LET provider == req'[r].gen.provider
         IN /\ IF req[r].request.use_alternate /\ EnabledAlternates # {}
               THEN provider \in EnabledAlternates
               ELSE IF EnabledDefaults # {} THEN provider \in EnabledDefaults
               ELSE provider = 0
            /\ \A p \in llm_providers : p.id = provider => p.enabled]_vars

---------------------------------------------------------------------------
(* C18: title fallback *)

\* The provider the role other than the one used for the primary call
\* resolves to.
OtherRole(r) == get_provider_for_generation(~req[r].use_alternate)

\* A title call of request r returns in this step.
TitleStep(r) == req[r].pc = "title" /\ req'[r].pc = "summary"

\* C18 as stated: the primary provider is queried once; a primary title
\* of "Untitled" makes exactly one query to the other role; a usable
\* primary title makes none.
C18_FallbackAlways ==
  [][\A r \in Reqs :
       TitleStep(r) =>
         LET queries == req'[r].title_queries
         IN /\ queries[1] = get_provider_for_generation(req[r].use_alternate)
            /\ Len(queries) = (IF _clean_title(req[r].title) = Untitled THEN 2 ELSE 1)
            /\ Len(queries) = 2 => queries[2] = OtherRole(r)]_vars

\* C18, amended: the primary provider is queried exactly once; when its
\* cleaned title is "Untitled" and the other role resolves to a provider
\* that is not the one just queried, that provider is queried exactly once
\* and its cleaned title is kept; in every other case (a usable primary
\* title, no provider for the other role, or the same provider for both
\* roles) no second query goes out and the primary title is kept.
C18_FallbackOnceToOther ==
  [][\A r \in Reqs :
       TitleStep(r) =>
         LET queries == req'[r].title_queries
             primary == get_provider_for_generation(req[r].use_alternate)
             retry == /\ _clean_title(req[r].title) = Untitled
                      /\ OtherRole(r) # 0
                      /\ OtherRole(r) # primary
         IN /\ queries[1] = primary
            /\ Len(queries) = (IF retry THEN 2 ELSE 1)
            /\ retry => /\ queries[2] = OtherRole(r)
                        /\ req'[r].title = _clean_title(req[r].fallback_title)
            /\ ~retry => req'[r].title = _clean_title(req[r].title)]_vars

\* The primary title was unusable and a second provider gave the title.
C18_Witness ==
  \E r \in Reqs : /\ req[r].pc = "summary"
                  /\ Len(req[r].title_queries) = 2
                  /\ req[r].title_queries[1] # req[r].title_queries[2]
                  /\ req[r].title = Dusk

---------------------------------------------------------------------------
(* C19: idempotence of content repair *)

\* The requests whose stream has ended and whose content has been repaired.
Repaired == {r \in Reqs : req[r].pc \in {"title", "summary"}}

\* C19: repairing a repaired text changes nothing: for the content
\* _clean_content returned for a finished stream, _clean_content of that
\* content is the content itself.
C19_RepairIdempotent ==
  \A r \in Repaired : _clean_content(req[r].content) = req[r].content

---------------------------------------------------------------------------
(* C20: the 80% threshold of the complete-ending step *)

\* The argument _clean_content hands to _ensure_complete_ending.
EndingInput(r) == Strip(StripPreambles(req[r].full_content))

\* C20: for a text that does not end in terminal punctuation, the
\* complete-ending step returns the text unmodified when it holds no
\* terminal punctuation at all, and when the text cut after its last
\* sentence end is shorter than 80% of the text; when the cut text keeps
\* at least 80%, the result is the cut text, put through the paragraph
\* check.
C20_TruncationThreshold ==
  \A r \in Repaired :
    LET x == EndingInput(r)
        result == req[r].content
        truncated == RStrip(SubSeq(x, 1, Max(SentenceEnds(x))))
    IN x # << >> /\ ~EndsWithPunctuation(x) =>
         /\ (\A i \in DOMAIN x : x[i] \notin Terminators) => result = x
         /\ SentenceEnds(x) = {} => result = x
         /\ SentenceEnds(x) # {} /\ 10 * Len(truncated) < 8 * Len(x) => result = x
         /\ SentenceEnds(x) # {} /\ 10 * Len(truncated) >= 8 * Len(x) =>
              /\ result = _check_paragraph_completeness(truncated)
              /\ Len(result) <= Len(truncated)
              /\ result = SubSeq(x, 1, Len(result))
              /\ EndsWithPunctuation(truncated)

\* A text of ten characters cut to its first eight, exactly 80%.
C20_Witness ==
  \E r \in Repaired :
    /\ ~EndsWithPunctuation(EndingInput(r))
    /\ Len(EndingInput(r)) = 10
    /\ Len(req[r].content) = 8

---------------------------------------------------------------------------
(* C21: the paragraph-completeness check *)

\* C21: for a text that ends in terminal punctuation, the paragraph check
\* leaves a text of fewer than two paragraphs alone; with two or more, it
\* drops the last paragraph exactly when that paragraph is shorter than 30%
\* of the mean length of the others, and then returns the text up to the
\* end of the second-to-last paragraph.
C21_ParagraphCheck ==
  \A r \in Repaired :
    LET x == EndingInput(r)
        result == req[r].content
        paragraphs == StrippedNonEmpty(SplitParagraphs(x, << >>))
        n == Len(paragraphs)
        others == SubSeq(paragraphs, 1, n - 1)
    IN EndsWithPunctuation(x) =>
         /\ n < 2 => result = x
         /\ n >= 2 /\ 10 * Len(paragraphs[n]) * (n - 1) < 3 * SumLen(others) =>
              /\ result = JoinParagraphs(others)
              /\ result = SubSeq(x, 1, Len(x) - Len(paragraphs[n]) - 2)
         /\ n >= 2 /\ 10 * Len(paragraphs[n]) * (n - 1) >= 3 * SumLen(others) =>
              result = x

\* Three paragraphs of 10, 10 and 2 characters: the last one is dropped.
C21_Witness ==
  \E r \in Repaired :
    /\ EndingInput(r) = Paragraph(10) \o <<"\n", "\n">> \o Paragraph(10)
                          \o <<"\n", "\n">> \o Paragraph(2)
    /\ req[r].content = Paragraph(10) \o <<"\n", "\n">> \o Paragraph(10)

---------------------------------------------------------------------------
(* C22: the style section of the system prompt *)

\* The value an axis of the story resolves to: null is the default.
Resolved(value, default) == IF value = "None" THEN default ELSE value

\* The lines of a style section that speak of an axis.
LinesOf(section, axis) == {i \in DOMAIN section : section[i].axis = axis}

\* The section says what the claim says about one axis: no line when the
\* value is the default, one line, carrying the value, when it is not.
AxisStated(section, axis, value, default) ==
  IF Resolved(value, default) = default
  THEN LinesOf(section, axis) = {}
  ELSE /\ Cardinality(LinesOf(section, axis)) = 1
       /\ \A i \in LinesOf(section, axis) : section[i].value = value

\* C22: the system prompt of a generation has no style section when
\* writing style, mood and pacing of the story are balanced, moderate and
\* moderate; for every combination of values the section has exactly one
\* line for each axis that is not at its default and none for the others.
C22_StyleSection ==
  \A r \in Built : \A s \in StoryRow(req[r].story_id) :
    LET section == req[r].gen.system_prompt.style_section
    IN /\ AxisStated(section, "Writing Style", s.writing_style, "balanced")
       /\ AxisStated(section, "Mood", s.mood, "moderate")
       /\ AxisStated(section, "Pacing", s.pacing, "moderate")
       /\ \A i \in DOMAIN section : section[i].axis \in {"Writing Style", "Mood", "Pacing"}
       /\ (/\ s.writing_style = "balanced"
           /\ s.mood = "moderate"
           /\ s.pacing = "moderate") => section = << >>

\* A prompt whose section has one line, for the mood.
C22_Witness ==
  \E r \in Built : \E s \in StoryRow(req[r].story_id) :
    /\ s.writing_style = "balanced" /\ s.mood = "dark" /\ s.pacing = "moderate"
    /\ req[r].gen.system_prompt.style_section = <<[axis |-> "Mood", value |-> "dark"]>>

---------------------------------------------------------------------------
(* C23: the complete event *)

\* The step sends a complete event.
SendsComplete ==
  /\ resp'.op = "generate"
  /\ resp'.events # << >>
  /\ resp'.events[Len(resp'.events)].event = "complete"
  /\ resp' # resp

\* C23: a step that sends a complete event is the last step of a request
\* whose title and summary calls have returned, and after it the episode
\* row the event names holds the repaired content of the stream, its word
\* count, the title and the summary, a snapshot for that episode that was
\* not there before is in the store, and the title and word count of the
\* event are those of the row.
C23_CompleteAfterPersist ==
  [][SendsComplete =>
       LET r == resp'.r
           data == resp'.events[Len(resp'.events)].data
       IN /\ req[r].pc = "summary"
          /\ data.episode_id = req[r].episode_id
          /\ \E e \in episodes' :
               /\ e.id = data.episode_id
               /\ e.story_id = req[r].story_id
               /\ e.content = _clean_content(req[r].full_content)
               /\ e.word_count = WordCount(e.content)
               /\ e.title = req[r].title
               /\ e.summary = req[r].summary
               /\ data.title = e.title
               /\ data.word_count = e.word_count
               /\ \E m \in memory_states' \ memory_states :
                    m.episode_id = e.id /\ m.story_id = e.story_id]_vars

\* A complete event for an episode with text, while the other request is
\* still generating.
C23_Witness ==
  /\ resp.op = "generate" /\ resp.step = "complete"
  /\ \E e \in episodes :
       /\ e.id = resp.events[Len(resp.events)].data.episode_id
       /\ e.word_count > 0
       /\ e.title = Dawn
       /\ MemoryOfEpisode(e.id) # {}
  /\ \E r \in Reqs : req[r].pc \in InFlight

---------------------------------------------------------------------------
(* C24: the placeholder and the memory tiers *)

\* The numbers in a list of episode numbers.
Among(numbers) == {numbers[i] : i \in DOMAIN numbers}

\* C24: the tiers built for the generation of an episode hold only
\* episodes of lower number, the placeholder of the episode under way is
\* not in the active tier, and the context's episode count does not count
\* the placeholder.
C24_TiersFromCompleted ==
  \A r \in Built : \A e \in EpisodeRow(req[r].episode_id) :
    LET slices == req[r].gen.slices
    IN /\ \A n \in Among(slices.active) \cup Among(slices.background)
                     \cup Among(slices.faded) : n < e.number
       /\ e.number \notin Among(slices.active)
       /\ \A i \in DOMAIN req[r].gen.context.active_memory :
            req[r].gen.context.active_memory[i].number # e.number
       /\ req[r].gen.context.episode_count = e.number - 1

---------------------------------------------------------------------------
(* C25: forks and generations in flight *)

ForkedStories == {s \in stories : s.parent_story_id # 0}

\* C25: every episode of a forked story has content and is the copy of an
\* episode its source story holds with the same number and content; no
\* fork holds a copy of a placeholder, nor of a row a failed generation
\* has since deleted from the source.
C25_ForkCopiesCompleted ==
  \A f \in ForkedStories : \A e \in EpisodesOf(f.id) :
    /\ e.content # None
    /\ \E src \in EpisodesOf(f.parent_story_id) :
         src.number = e.number /\ src.content = e.content

---------------------------------------------------------------------------
(* C26: the snapshot copied by a fork *)

\* The snapshots of the story whose episode carries the number.
SnapshotsAt(story_id, number) ==
  { m \in MemoryOfStory(story_id) :
      \E e \in EpisodesOf(story_id) : e.id = m.episode_id /\ e.number = number }

\* Two snapshots hold the same tiers, character states and plot threads.
SameMemory(m, n) ==
  /\ m.active_memory = n.active_memory
  /\ m.background_memory = n.background_memory
  /\ m.faded_memory = n.faded_memory
  /\ m.character_states = n.character_states
  /\ m.plot_threads = n.plot_threads

\* C26: a step that adds a forked story leaves the episodes and snapshots
\* of its source as they were and copies the source episodes numbered up to
\* from_episode; when the source has a snapshot for the episode numbered
\* from_episode the fork gets exactly one snapshot, with the memory of such
\* a source snapshot and referencing the fork's episode of that number;
\* otherwise the fork succeeds without a snapshot.
C26_ForkSnapshot ==
  [][\A f \in stories' \ stories :
       f.parent_story_id # 0 =>
         LET src == f.parent_story_id
             k == f.fork_from_episode
             copies == {e \in episodes' : e.story_id = f.id}
             made == {m \in memory_states' : m.story_id = f.id}
         IN /\ resp'.op = "fork_story" /\ resp'.code = 200
            /\ {e \in episodes' : e.story_id = src} = EpisodesOf(src)
            /\ {m \in memory_states' : m.story_id = src} = MemoryOfStory(src)
            /\ episodes' \ copies = episodes
            /\ memory_states' \ made = memory_states
            /\ Cardinality(copies) = Cardinality({e \in EpisodesOf(src) : e.number <= k})
            /\ \A e \in EpisodesOf(src) :
                 e.number <= k =>
                   \E c \in copies : /\ c.number = e.number /\ c.content = e.content
                                     /\ c.title = e.title /\ c.summary = e.summary
            /\ IF SnapshotsAt(src, k) # {}
               THEN /\ Cardinality(made) = 1
                    /\ \A n \in made :
                         /\ \E m \in SnapshotsAt(src, k) : SameMemory(m, n)
                         /\ \E c \in copies : c.id = n.episode_id /\ c.number = k
               ELSE made = {}]_vars

\* A fork holding the copy of a snapshot, made while a generation on the
\* source was in flight.
C26_Witness ==
  /\ resp.op = "fork_story" /\ resp.code = 200
  /\ MemoryOfStory(resp.forked_id) # {}
  /\ \E r \in Reqs : req[r].pc \in InFlight

---------------------------------------------------------------------------
(* C27: sentence events *)

RECURSIVE DataOf(_, _)
\* The data of the events of one kind, flattened, in stream order.
DataOf(log, kind) ==
  IF log = << >> THEN << >>
  ELSE (IF Head(log).event = kind THEN Head(log).data ELSE << >>)
       \o DataOf(Tail(log), kind)

RECURSIVE Without(_, _)
\* The text without the characters of a set.
Without(text, S) ==
  IF text = << >> THEN << >>
  ELSE (IF Head(text) \in S THEN << >> ELSE <<Head(text)>>) \o Without(Tail(text), S)

RECURSIVE Covers(_, _, _)
\* spoken is text without its whitespace and terminators and without any
\* of the closing characters that directly follow a terminator.
Covers(spoken, text, afterTerminator) ==
  IF text = << >> THEN spoken = << >>
  ELSE IF Head(text) \in Terminators THEN Covers(spoken, Tail(text), TRUE)
  ELSE IF Head(text) \in Whitespace THEN Covers(spoken, Tail(text), FALSE)
  ELSE \/ /\ spoken # << >>
          /\ Head(spoken) = Head(text)
          /\ Covers(Tail(spoken), Tail(text), FALSE)
       \/ /\ afterTerminator
          /\ Head(text) \in Closers
          /\ Covers(spoken, Tail(text), TRUE)

\* The text without whitespace, terminators and closing characters.
Plain(text) == Without(text, Whitespace \cup Terminators \cup Closers)

IsPrefix(a, b) == Len(a) <= Len(b) /\ SubSeq(b, 1, Len(a)) = a

\* What holds of the events and the buffer at every point of a stream:
\* sentence events carry trimmed, non-empty text; the sentences sent up to
\* any event are, in order, text of the tokens sent before it; while the
\* stream runs the buffer holds no terminator, and the sentences sent
\* followed by the buffer account for the accumulated text.
SentencesFollowTokens(r) ==
  LET log == req[r].events
  IN /\ \A i \in DOMAIN log :
          log[i].event = "sentence" =>
            /\ log[i].data # << >>
            /\ Strip(log[i].data) = log[i].data
            /\ IsPrefix(Plain(DataOf(SubSeq(log, 1, i), "sentence")),
                        Plain(DataOf(SubSeq(log, 1, i), "token")))
     /\ DataOf(log, "token") = req[r].full_content
     /\ req[r].pc = "streaming" =>
          /\ ~SentenceSearch(req[r].current_sentence)
          /\ Covers(Without(DataOf(log, "sentence") \o req[r].current_sentence, Whitespace),
                    req[r].full_content, FALSE)

\* After the end of the stream a non-empty trailing fragment has been sent
\* as the last sentence event, and only then.
FragmentFlushed(r) ==
  LET log == req[r].events
      rest == Strip(req[r].current_sentence)
  IN req[r].pc = "title" =>
       IF rest # << >>
       THEN log[Len(log)] = Event("sentence", rest, req[r].episode_id)
       ELSE log[Len(log)].event \in {"start", "token", "sentence"}
            /\ Covers(Without(DataOf(log, "sentence"), Whitespace),
                      req[r].full_content, FALSE)

\* C27 as stated: at the end of a stream every character of the
\* accumulated text that is neither whitespace nor a terminator is in
\* exactly one sentence event, in text order.
C27_EveryCharacterSpoken ==
  \A r \in Repaired :
    Without(DataOf(req[r].events, "sentence"), Whitespace)
      = Without(req[r].full_content, Whitespace \cup Terminators)

\* C27, amended: sentence events are sent in text order, each with trimmed
\* non-empty text of tokens already sent; after a split the buffer keeps
\* only the fragment after the last terminator; at the end of the stream a
\* non-empty trailing fragment is sent as one last sentence event; and then
\* every character of the accumulated text is in exactly one sentence
\* event, except whitespace, terminators and the closing quotes and
\* brackets that directly follow a terminator in the buffer, which are in
\* none.
C27_SentencesCoverText ==
  \A r \in Reqs :
    /\ req[r].pc \in {"streaming", "title", "summary"} => SentencesFollowTokens(r)
    /\ FragmentFlushed(r)
    /\ r \in Repaired =>
         Covers(Without(DataOf(req[r].events, "sentence"), Whitespace),
                req[r].full_content, FALSE)

\* A stream whose text closes a quote after a terminator and goes on: two
\* sentence events, the quote in neither.
C27_Witness ==
  \E r \in Repaired :
    /\ req[r].full_content = <<"a", ".", "\"", " ", "a">>
    /\ DataOf(req[r].events, "sentence") = <<"a", "a">>

---------------------------------------------------------------------------
(* C28: title cleanup *)

\* C28: the title a title call leaves on the request, and the title of
\* every episode that has one, is neither empty nor whitespace only and
\* has at most 255 characters.
C28_TitleNeverEmpty ==
  /\ \A r \in Reqs :
       req[r].pc = "summary" =>
         Strip(req[r].title) # << >> /\ Len(req[r].title) <= 255
  /\ \A e \in episodes :
       e.title # None => Strip(e.title) # << >> /\ Len(e.title) <= 255

---------------------------------------------------------------------------
(* C29: the token budget *)

Abs(x) == IF x < 0 THEN 0 - x ELSE x

\* C29: the token budget of a generation is target_words x 1.95 rounded to
\* the nearest integer: it lies within one half of that product (either
\* neighbour when the product ends in .5).
C29_RoundedBudget ==
  \A r \in Built :
    2 * Abs(100 * req[r].gen.max_tokens - 195 * req[r].gen.effective_target_words) <= 100

---------------------------------------------------------------------------
(* C30: one default and one alternate provider *)

\* C30: whatever providers have been created, updated and deleted, at most
\* one provider row has is_default set and at most one has is_alternate
\* set.
C30_UniqueFlags ==
  /\ Cardinality({p \in llm_providers : p.is_default}) <= 1
  /\ Cardinality({p \in llm_providers : p.is_alternate}) <= 1

\* An update has moved both flags from the first provider to the second.
C30_Witness ==
  /\ resp.op = "update_provider" /\ resp.code = 200
  /\ \E p, q \in llm_providers :
       /\ p.id = 1 /\ ~p.is_default /\ ~p.is_alternate
       /\ q.id = 2 /\ q.is_default /\ q.is_alternate

=============================================================================
